---- MODULE Spec2Model ----
(***************************************************************************)
(* The filter core of strace (n1kolasM/strace): number sets, the syscall   *)
(* set parser, the injection option parser, the table of filter actions   *)
(* and the per-event pipeline.                                             *)
(*                                                                         *)
(* C strings are sequences of one-character strings, so that prefixes      *)
(* ('!', '?', '/', '%'), strtok_r and strtol are computed character by     *)
(* character.  A machine word of a number_set is the set of its bit        *)
(* positions that are 1.                                                   *)
(***************************************************************************)
EXTENDS Integers, Sequences, FiniteSets, TLC

VARIABLES
    nset,       \* SpecNum: one struct number_set
    nadded,     \* SpecNum: history, every number handed to add_number_to_set
    ps,         \* SpecSys: one call of parse_syscall_filter, input and result
    inj,        \* SpecInj: one call of parse_inject_common_args, input and result
    filter_actions, \* Spec: the actions, nfilter_actions is the length
    default_flags,  \* Spec: the qualifier bits every event gets
    variables_buf,  \* Spec: the scratch vector, null or its length
    tracing_paths,  \* Spec: paths were selected
    phase,          \* Spec: "parsing", "tracing", "dead" or "crashed"
    faa,            \* Spec: history, the last call of find_or_add_action
    tcb,            \* Spec: the last event handed to filter_syscall
    signal_set,     \* SpecSig: the set of the signals to print
    qs              \* SpecSig: history, the last call of qualify_signals

vars == <<nset, nadded, ps, inj, filter_actions, default_flags, variables_buf,
          tracing_paths, phase, faa, tcb, signal_set, qs>>

pipeVars == <<filter_actions, default_flags, variables_buf, tracing_paths, phase,
              faa, tcb>>

numVars == <<nset, nadded>>

sysVars == <<ps>>

injVars == <<inj>>

sigVars == <<signal_set, qs>>

(***************************************************************************)
(* Bounds of the model.                                                    *)
(***************************************************************************)
\* Largest number added to the number set of SpecNum.
MaxNumber == 65
\* Largest number of leading '!' of a syscall specification of SpecSys.
MaxBangs == 2
\* Largest number of tokens of an injection argument list of SpecInj.
MaxInjectTokens == 2
\* Spec: no qualification once the table holds this many actions.
MaxActions == 3

(***************************************************************************)
(* basic_filters.c: struct number_set.                                     *)
(***************************************************************************)
BITS_PER_SLOT == 32

\* xcalloc(1, sizeof(struct number_set)): no slots, not inverted.
empty_number_set == [vec |-> <<>>, nslots |-> 0, not |-> FALSE]

number_setbit(i, vec) ==
    [vec EXCEPT ![(i \div BITS_PER_SLOT) + 1] = @ \cup {i % BITS_PER_SLOT}]

number_isset(i, vec) == (i % BITS_PER_SLOT) \in vec[(i \div BITS_PER_SLOT) + 1]

\* A growth that clears the slots it keeps (memset from the start of vec).
reallocate_number_set_clearing(set, new_nslots) ==
    IF new_nslots <= set.nslots
    THEN set
    ELSE [set EXCEPT !.vec = [i \in 1..new_nslots |-> {}],
                     !.nslots = new_nslots]

reallocate_number_set(set, new_nslots) ==
    IF new_nslots <= set.nslots
    THEN set
    ELSE [set EXCEPT !.vec = set.vec \o [i \in 1..(new_nslots - set.nslots) |-> {}],
                     !.nslots = new_nslots]

\* number_setbit(number, set->vec) on the set.
setbit_in(number, set) == [set EXCEPT !.vec = number_setbit(number, set.vec)]

add_number_to_set(number, set) ==
    setbit_in(number, reallocate_number_set(set, (number \div BITS_PER_SLOT) + 1))

is_number_in_set(number, set) ==
    (((number \div BITS_PER_SLOT) < set.nslots) /\ number_isset(number, set.vec))
        # set.not

\* set->not = !set->not, the effect of one '!' or of "all" on one set.
invert_flip(set) == [set EXCEPT !.not = ~@]

(***************************************************************************)
(* C strings and the integer parsers of the environment (util.c).          *)
(***************************************************************************)
Digits == <<"0", "1", "2", "3", "4", "5", "6", "7", "8", "9">>

isdigit(c) == \E i \in 1..10 : Digits[i] = c

DigitVal(c) == (CHOOSE i \in 1..10 : Digits[i] = c) - 1

\* s + n: the string without its first n characters.
StrFrom(s, n) == SubSeq(s, n + 1, Len(s))

\* *s, with "" for the terminating NUL.
CharAt(s, i) == IF i <= Len(s) THEN s[i] ELSE ""

\* strchr(set, c) != NULL for a character c other than NUL.
strchr(set, c) == \E i \in 1..Len(set) : set[i] = c

\* The tokens strtok_r yields for str: the maximal runs of characters that
\* are not delimiters; empty runs are skipped.
RECURSIVE strtok_r(_, _, _, _)
strtok_r(str, delim, cur, acc) ==
    IF str = <<>>
    THEN (IF cur = <<>> THEN acc ELSE Append(acc, cur))
    ELSE IF strchr(delim, Head(str))
         THEN strtok_r(Tail(str), delim, <<>>,
                       IF cur = <<>> THEN acc ELSE Append(acc, cur))
         ELSE strtok_r(Tail(str), delim, Append(cur, Head(str)), acc)

Tokens(str, delim) == strtok_r(str, delim, <<>>, <<>>)

\* The digits of strtol: the value of the longest run of digits at position i.
RECURSIVE strtol_digits(_, _, _)
strtol_digits(s, i, val) ==
    IF i <= Len(s) /\ isdigit(s[i])
    THEN strtol_digits(s, i + 1, 10 * val + DigitVal(s[i]))
    ELSE [val |-> val, end |-> i]

\* The result of strtol from the digits d found at position j: nothing
\* converted (end is 1) or the signed value.
strtol_result(d, j, neg) ==
    IF d.end = j
    THEN [val |-> 0, end |-> 1]
    ELSE [val |-> IF neg THEN 0 - d.val ELSE d.val, end |-> d.end]

\* strtol(str, &end, 10): blanks, an optional sign, digits.  end is the
\* position of the first character not converted, 1 when nothing was.
RECURSIVE strtol(_, _)
strtol(s, i) ==
    IF CharAt(s, i) = " " THEN strtol(s, i + 1)
    ELSE IF CharAt(s, i) \in {"-", "+"}
         THEN strtol_result(strtol_digits(s, i + 1, 0), i + 1, CharAt(s, i) = "-")
         ELSE strtol_result(strtol_digits(s, i, 0), i, FALSE)

INT_MAX == 2147483647

\* The checks of string_to_uint_ex on r, the result of strtol.
string_to_uint_checked(str, r, max_val, accepted_ending) ==
    IF r.end = 1 \/ r.val < 0 \/ r.val > max_val
    THEN [val |-> -1, end |-> 1]
    ELSE IF r.end <= Len(str) /\ ~strchr(accepted_ending, str[r.end])
         THEN [val |-> -1, end |-> 1]
         ELSE r

\* string_to_uint_ex(str, &end, max_val, accepted_ending): the value, or -1.
\* accepted_ending is <<>> for NULL.
string_to_uint_ex(str, max_val, accepted_ending) ==
    IF str = <<>> THEN [val |-> -1, end |-> 1]
    ELSE string_to_uint_checked(str, strtol(str, 1), max_val, accepted_ending)

string_to_uint_upto(str, max_val) == string_to_uint_ex(str, max_val, <<>>).val

string_to_uint(str) == string_to_uint_upto(str, INT_MAX)

(***************************************************************************)
(* The syscall tables (sysent_vec, nsyscall_vec) of the environment: two   *)
(* personalities with different numbering, an entry without a name in      *)
(* each, class bits as sets.                                               *)
(***************************************************************************)
SUPPORTED_PERSONALITIES == 2

Personalities == 0..(SUPPORTED_PERSONALITIES - 1)

sysent_vec ==
    [p \in Personalities |->
        IF p = 0
        THEN << [named |-> TRUE,  sys_name |-> <<"r", "e", "a", "d">>,
                 sys_flags |-> {"TRACE_DESC"}],
                [named |-> TRUE,  sys_name |-> <<"w", "r", "i", "t", "e">>,
                 sys_flags |-> {"TRACE_DESC"}],
                [named |-> TRUE,  sys_name |-> <<"o", "p", "e", "n">>,
                 sys_flags |-> {"TRACE_DESC", "TRACE_FILE"}],
                [named |-> TRUE,  sys_name |-> <<"c", "l", "o", "s", "e">>,
                 sys_flags |-> {"TRACE_DESC"}],
                [named |-> FALSE, sys_name |-> <<>>,
                 sys_flags |-> {"TRACE_FILE"}],
                [named |-> TRUE,  sys_name |-> <<"s", "t", "a", "t">>,
                 sys_flags |-> {"TRACE_FILE", "TRACE_STAT", "TRACE_STAT_LIKE"}],
                [named |-> TRUE,
                 sys_name |-> <<"m", "q", "_", "t", "i", "m", "e", "d", "s", "e", "n", "d">>,
                 sys_flags |-> {}],
                [named |-> TRUE,  sys_name |-> <<"k", "i", "l", "l">>,
                 sys_flags |-> {"TRACE_SIGNAL"}] >>
        ELSE << [named |-> TRUE,  sys_name |-> <<"o", "p", "e", "n">>,
                 sys_flags |-> {"TRACE_DESC", "TRACE_FILE"}],
                [named |-> TRUE,  sys_name |-> <<"r", "e", "a", "d">>,
                 sys_flags |-> {"TRACE_DESC"}],
                [named |-> TRUE,  sys_name |-> <<"r", "e", "a", "d", "v">>,
                 sys_flags |-> {"TRACE_DESC"}],
                [named |-> FALSE, sys_name |-> <<>>,
                 sys_flags |-> {}],
                [named |-> TRUE,  sys_name |-> <<"s", "i", "g", "n", "a", "l">>,
                 sys_flags |-> {"TRACE_SIGNAL"}] >>]

nsyscall_vec == [p \in Personalities |-> Len(sysent_vec[p])]

\* sysent_vec[p][i], the index i counted from 0 as in C.
sysent(p, i) == sysent_vec[p][i + 1]

\* xcalloc(SUPPORTED_PERSONALITIES, sizeof(struct number_set))
empty_syscall_set == [p \in Personalities |-> empty_number_set]

(***************************************************************************)
(* regcomp / regexec of the C library, for the patterns of the model: a    *)
(* string of ordinary characters, "^" first and "$" last as anchors;       *)
(* a pattern with an unmatched "(" does not compile.                       *)
(***************************************************************************)
RECURSIVE CountChar(_, _)
CountChar(s, c) ==
    IF s = <<>> THEN 0
    ELSE (IF Head(s) = c THEN 1 ELSE 0) + CountChar(Tail(s), c)

\* regcomp(&preg, s, REG_EXTENDED | REG_NOSUB) == 0
regcomp(s) == CountChar(s, "(") = CountChar(s, ")")

\* regexec(&preg, name, 0, NULL, 0) == 0
regexec(s, name) ==
    LET bol == s # <<>> /\ Head(s) = "^"
        s1  == IF bol THEN Tail(s) ELSE s
        eol == s1 # <<>> /\ s1[Len(s1)] = "$"
        lit == IF eol THEN SubSeq(s1, 1, Len(s1) - 1) ELSE s1
        n   == Len(lit)
    IN  \E k \in 1..(Len(name) - n + 1) :
           /\ SubSeq(name, k, k + n - 1) = lit
           /\ bol => k = 1
           /\ eol => k + n - 1 = Len(name)

(***************************************************************************)
(* basic_filters.c: the syscall set parser.  A parse function yields       *)
(* [ret, die, set]: its return value, whether it ended the process         *)
(* (error_msg_and_die) and the sets as it left them.                       *)
(***************************************************************************)
\* for (i = 0; i < n; ++i) if (i is in M) add_number_to_set(i, set);
RECURSIVE add_numbers_from(_, _, _, _)
add_numbers_from(i, n, M, set) ==
    IF i >= n THEN set
    ELSE add_numbers_from(i + 1, n, M,
                          IF i \in M THEN add_number_to_set(i, set) ELSE set)

\* parse_syscall_number with n == string_to_uint(s).
add_syscall_number(n, set) ==
    IF n < 0
    THEN [ret |-> FALSE, die |-> FALSE, set |-> set]
    ELSE [ret |-> \E p \in Personalities : n < nsyscall_vec[p],
          die |-> FALSE,
          set |-> [p \in Personalities |->
                      IF n >= nsyscall_vec[p]
                      THEN set[p]
                      ELSE add_number_to_set(n, set[p])]]

parse_syscall_number(s, set) == add_syscall_number(string_to_uint(s), set)

\* The syscalls of personality p that the regular expression s matches.
regex_matches(s, p) ==
    {i \in 0..(nsyscall_vec[p] - 1) :
        sysent(p, i).named /\ regexec(s, sysent(p, i).sys_name)}

parse_syscall_regex(s, set) ==
    IF ~regcomp(s)
    THEN [ret |-> FALSE, die |-> TRUE, set |-> set]
    ELSE [ret |-> \E p \in Personalities : regex_matches(s, p) # {},
          die |-> FALSE,
          set |-> [p \in Personalities |->
                      add_numbers_from(0, nsyscall_vec[p], regex_matches(s, p), set[p])]]

syscall_class ==
    << [name |-> <<"d", "e", "s", "c">>,                     value |-> {"TRACE_DESC"}],
       [name |-> <<"f", "i", "l", "e">>,                     value |-> {"TRACE_FILE"}],
       [name |-> <<"m", "e", "m", "o", "r", "y">>,           value |-> {"TRACE_MEMORY"}],
       [name |-> <<"p", "r", "o", "c", "e", "s", "s">>,      value |-> {"TRACE_PROCESS"}],
       [name |-> <<"s", "i", "g", "n", "a", "l">>,           value |-> {"TRACE_SIGNAL"}],
       [name |-> <<"i", "p", "c">>,                          value |-> {"TRACE_IPC"}],
       [name |-> <<"n", "e", "t", "w", "o", "r", "k">>,      value |-> {"TRACE_NETWORK"}],
       [name |-> <<"%", "d", "e", "s", "c">>,                value |-> {"TRACE_DESC"}],
       [name |-> <<"%", "f", "i", "l", "e">>,                value |-> {"TRACE_FILE"}],
       [name |-> <<"%", "m", "e", "m", "o", "r", "y">>,      value |-> {"TRACE_MEMORY"}],
       [name |-> <<"%", "p", "r", "o", "c", "e", "s", "s">>, value |-> {"TRACE_PROCESS"}],
       [name |-> <<"%", "s", "i", "g", "n", "a", "l">>,      value |-> {"TRACE_SIGNAL"}],
       [name |-> <<"%", "i", "p", "c">>,                     value |-> {"TRACE_IPC"}],
       [name |-> <<"%", "n", "e", "t", "w", "o", "r", "k">>, value |-> {"TRACE_NETWORK"}],
       [name |-> <<"%", "s", "t", "a", "t">>,                value |-> {"TRACE_STAT"}],
       [name |-> <<"%", "l", "s", "t", "a", "t">>,           value |-> {"TRACE_LSTAT"}],
       [name |-> <<"%", "f", "s", "t", "a", "t">>,           value |-> {"TRACE_FSTAT"}],
       [name |-> <<"%", "%", "s", "t", "a", "t">>,           value |-> {"TRACE_STAT_LIKE"}],
       [name |-> <<"%", "s", "t", "a", "t", "f", "s">>,      value |-> {"TRACE_STATFS"}],
       [name |-> <<"%", "f", "s", "t", "a", "t", "f", "s">>, value |-> {"TRACE_FSTATFS"}],
       [name |-> <<"%", "%", "s", "t", "a", "t", "f", "s">>, value |-> {"TRACE_STATFS_LIKE"}] >>

\* The value of the first entry of the table among hits, {} (0) without any.
first_class_value(hits) ==
    IF hits = {} THEN {}
    ELSE syscall_class[CHOOSE i \in hits : \A j \in hits : i <= j].value

\* lookup_class taking the bare names for classes in either mode.
lookup_class_bare_always(s, qualify_mode) ==
    first_class_value({i \in 1..Len(syscall_class) : s = syscall_class[i].name})

\* The class value of s, {} (0) when s names no class.  The first entry of
\* the table that matches decides.
lookup_class(s, qualify_mode) ==
    first_class_value({i \in 1..Len(syscall_class) :
                          /\ qualify_mode \/ CharAt(s, 1) = "%"
                          /\ s = syscall_class[i].name})

\* The syscalls of personality p whose flag word has all bits of n.
class_matches(n, p) ==
    {i \in 0..(nsyscall_vec[p] - 1) :
        sysent(p, i).named /\ (sysent(p, i).sys_flags \cap n) = n}

\* parse_syscall_class with n == lookup_class(s, qualify_mode).
add_syscall_class(n, set) ==
    IF n = {}
    THEN [ret |-> FALSE, die |-> FALSE, set |-> set]
    ELSE [ret |-> TRUE, die |-> FALSE,
          set |-> [p \in Personalities |->
                      add_numbers_from(0, nsyscall_vec[p], class_matches(n, p), set[p])]]

parse_syscall_class(s, set, qualify_mode) ==
    add_syscall_class(lookup_class(s, qualify_mode), set)

\* The syscalls of personality p named s.
name_matches(s, p) ==
    {i \in 0..(nsyscall_vec[p] - 1) :
        sysent(p, i).named /\ s = sysent(p, i).sys_name}

parse_syscall_name(s, set) ==
    [ret |-> \E p \in Personalities : name_matches(s, p) # {},
     die |-> FALSE,
     set |-> [p \in Personalities |->
                 add_numbers_from(0, nsyscall_vec[p], name_matches(s, p), set[p])]]

\* while (*token == '?') token++: the number of leading '?'.
RECURSIVE CountLeading(_, _)
CountLeading(s, c) ==
    IF s # <<>> /\ Head(s) = c THEN 1 + CountLeading(Tail(s), c) ELSE 0

\* r, with a false return value turned into true when ignore_fail is set.
OrIgnoreFail(r, ignore_fail) == [r EXCEPT !.ret = @ \/ (~r.die /\ ignore_fail)]

\* parse_syscall_class(...) || parse_syscall_name(...) || ignore_fail, with
\* c the result of parse_syscall_class.
class_or_name(c, token, ignore_fail) ==
    IF c.ret THEN c
    ELSE OrIgnoreFail(parse_syscall_name(token, c.set), ignore_fail)

\* parse_syscall on the token without its '?' prefixes, with the number
\* branch forgetting ignore_fail.
parse_syscall_stripped_number_strict(token, set, qualify_mode, ignore_fail) ==
    IF isdigit(CharAt(token, 1))
    THEN parse_syscall_number(token, set)
    ELSE IF CharAt(token, 1) = "/"
    THEN OrIgnoreFail(parse_syscall_regex(StrFrom(token, 1), set), ignore_fail)
    ELSE class_or_name(parse_syscall_class(token, set, qualify_mode), token, ignore_fail)

\* parse_syscall on the token without its '?' prefixes.
parse_syscall_stripped(token, set, qualify_mode, ignore_fail) ==
    IF isdigit(CharAt(token, 1))
    THEN OrIgnoreFail(parse_syscall_number(token, set), ignore_fail)
    ELSE IF CharAt(token, 1) = "/"
    THEN OrIgnoreFail(parse_syscall_regex(StrFrom(token, 1), set), ignore_fail)
    ELSE class_or_name(parse_syscall_class(token, set, qualify_mode), token, ignore_fail)

parse_syscall(token, set, qualify_mode) ==
    parse_syscall_stripped(StrFrom(token, CountLeading(token, "?")), set, qualify_mode,
                           CountLeading(token, "?") > 0)

\* The token loop of parse_syscall_set: a token that returns false ends the
\* process; done is the return value of the last token.  after_token is the
\* loop after one token returned r.
RECURSIVE parse_syscall_tokens(_, _, _, _)
after_token(r, rest, qualify_mode) ==
    IF r.die \/ ~r.ret
    THEN [ret |-> FALSE, die |-> TRUE, set |-> r.set]
    ELSE parse_syscall_tokens(rest, r.set, qualify_mode, r.ret)

parse_syscall_tokens(tokens, set, qualify_mode, done) ==
    IF tokens = <<>>
    THEN [ret |-> done, die |-> ~done, set |-> set]
    ELSE after_token(parse_syscall(Head(tokens), set, qualify_mode), Tail(tokens),
                     qualify_mode)

\* for (p = 0; p < SUPPORTED_PERSONALITIES; ++p) set[p].not = !set[p].not;
invert_all_personality0_only(set) ==
    [p \in Personalities |-> IF p = 0 THEN invert_flip(set[p]) ELSE set[p]]

invert_all(set) == [p \in Personalities |-> invert_flip(set[p])]

\* while (*s == '!') { invert every set; ++s; }: the rest of the string and
\* the sets.
RECURSIVE strip_bangs(_, _)
strip_bangs(s, set) ==
    IF s # <<>> /\ Head(s) = "!"
    THEN strip_bangs(Tail(s), invert_all(set))
    ELSE [s |-> s, set |-> set]

\* parse_syscall_set after the leading '!': b.s is the rest of the string.
parse_syscall_list(b, qualify_mode) ==
    IF b.s = <<"n", "o", "n", "e">>
    THEN [ret |-> TRUE, die |-> FALSE, set |-> b.set]
    ELSE IF b.s = <<"a", "l", "l">>
    THEN [ret |-> TRUE, die |-> FALSE, set |-> invert_all(b.set)]
    ELSE parse_syscall_tokens(Tokens(b.s, <<",">>), b.set, qualify_mode, FALSE)

parse_syscall_set(str, set, qualify_mode) ==
    IF qualify_mode
    THEN parse_syscall_list(strip_bangs(str, set), TRUE)
    ELSE parse_syscall_list([s |-> str, set |-> set], FALSE)

parse_syscall_filter(str, qualify_mode) ==
    parse_syscall_set(str, empty_syscall_set, qualify_mode)

(***************************************************************************)
(* filter_qualify.c: the injection option parser.                          *)
(***************************************************************************)
UpperCase == <<"A", "B", "C", "D", "E", "F", "G", "H", "I", "J", "K", "L", "M",
               "N", "O", "P", "Q", "R", "S", "T", "U", "V", "W", "X", "Y", "Z">>

LowerCase == <<"a", "b", "c", "d", "e", "f", "g", "h", "i", "j", "k", "l", "m",
               "n", "o", "p", "q", "r", "s", "t", "u", "v", "w", "x", "y", "z">>

tolower(c) ==
    IF \E i \in 1..26 : UpperCase[i] = c
    THEN LowerCase[CHOOSE i \in 1..26 : UpperCase[i] = c]
    ELSE c

\* strcasecmp(a, b) == 0
strcasecmp(a, b) ==
    /\ Len(a) = Len(b)
    /\ \A i \in 1..Len(a) : tolower(a[i]) = tolower(b[i])

\* strncasecmp(s, prefix, strlen(prefix)) == 0
strncasecmp(s, prefix) ==
    /\ Len(s) >= Len(prefix)
    /\ strcasecmp(SubSeq(s, 1, Len(prefix)), prefix)

\* STR_STRIP_PREFIX(token, prefix) != token
has_prefix(token, prefix) ==
    /\ Len(token) >= Len(prefix)
    /\ SubSeq(token, 1, Len(prefix)) = prefix

\* The decimal digits of a natural number (sprintf "%d").
RECURSIVE itoa(_)
itoa(n) == IF n < 10 THEN <<Digits[n + 1]>> ELSE Append(itoa(n \div 10), Digits[(n % 10) + 1])

\* signame(i): the names of four signals; the decimal number for the others.
signame(i) ==
    CASE i = 0  -> <<"S", "I", "G", "_", "0">>
      [] i = 2  -> <<"S", "I", "G", "I", "N", "T">>
      [] i = 9  -> <<"S", "I", "G", "K", "I", "L", "L">>
      [] i = 15 -> <<"S", "I", "G", "T", "E", "R", "M">>
      [] OTHER  -> itoa(i)

\* The i of 0..255 that pass the test of the SIG prefix in sigstr_to_uint.
sig_named == {i \in 0..255 : strncasecmp(signame(i), <<"S", "I", "G">>)}

\* The first i of a loop that returns at its first hit, -1 without any.
first_hit(hits) == IF hits = {} THEN -1 ELSE CHOOSE i \in hits : \A j \in hits : i <= j

\* The loop of sigstr_to_uint over the signal names, s without "SIG".
sigstr_lookup(s) == first_hit({i \in sig_named : strcasecmp(StrFrom(signame(i), 3), s)})

sigstr_to_uint(s) ==
    IF isdigit(CharAt(s, 1))
    THEN string_to_uint_upto(s, 255)
    ELSE IF strncasecmp(s, <<"S", "I", "G">>)
         THEN sigstr_lookup(StrFrom(s, 3))
         ELSE sigstr_lookup(s)

\* errnoent[i], <<>> where the table has no name (NULL); nerrnos entries.
nerrnos == 134

errnoent(i) ==
    CASE i = 1  -> <<"E", "P", "E", "R", "M">>
      [] i = 5  -> <<"E", "I", "O">>
      [] i = 38 -> <<"E", "N", "O", "S", "Y", "S">>
      [] OTHER  -> <<>>

\* The i of 1..nerrnos-1 with errnoent[i] != NULL.
errno_named == {i \in 1..(nerrnos - 1) : errnoent(i) # <<>>}

find_errno_by_name(name) ==
    first_hit({i \in errno_named : strcasecmp(name, errnoent(i))})

MAX_ERRNO_VALUE == 4095

ENOSYS == 38

\* NSIG_BYTES * 8
NSIG == 64

INJECT_OPTS_RVAL_DEFAULT == -4096

\* Assignment to a uint16_t field.
u16(n) == n % 65536

\* when=F+S: s is string_to_uint_upto(val, 0xffff) of the text after '+'.
parse_inject_when_S(s, fopts) ==
    IF s < 1 THEN [ok |-> FALSE, fopts |-> fopts]
    ELSE [ok |-> TRUE, fopts |-> [fopts EXCEPT !.step = u16(s)]]

\* The when= branch after fopts->first = intval; f.end is the place of *end.
parse_inject_when_step(val, f, fopts) ==
    IF f.end <= Len(val)
    THEN IF StrFrom(val, f.end) # <<>>
         THEN parse_inject_when_S(string_to_uint_upto(StrFrom(val, f.end), 65535), fopts)
         ELSE [ok |-> TRUE, fopts |-> [fopts EXCEPT !.step = 1]]
    ELSE [ok |-> TRUE, fopts |-> [fopts EXCEPT !.step = 0]]

\* The when= branch with f the result of string_to_uint_ex on F.
parse_inject_when_F(val, f, fopts) ==
    IF f.val < 1 THEN [ok |-> FALSE, fopts |-> fopts]
    ELSE parse_inject_when_step(val, f, [fopts EXCEPT !.first = u16(f.val)])

\* The when= branch with the bound of F one bit too wide (0x1ffff).
parse_inject_when_wide(val, fopts) ==
    parse_inject_when_F(val, string_to_uint_ex(val, 131071, <<"+">>), fopts)

\* The when= branch of parse_inject_token; val is the text after "when=".
parse_inject_when(val, fopts) ==
    parse_inject_when_F(val, string_to_uint_ex(val, 65535, <<"+">>), fopts)

\* fopts->rval = -intval, unless intval < 1.
set_rval_error(n, fopts) ==
    IF n < 1 THEN [ok |-> FALSE, fopts |-> fopts]
    ELSE [ok |-> TRUE, fopts |-> [fopts EXCEPT !.rval = 0 - n]]

\* The error= branch after the test of rval; n1 is the value as a number.
parse_inject_error_value(n1, val, fopts) ==
    IF n1 < 0
    THEN set_rval_error(find_errno_by_name(val), fopts)
    ELSE set_rval_error(n1, fopts)

\* The error= branch.
parse_inject_error(val, fopts) ==
    IF fopts.rval # INJECT_OPTS_RVAL_DEFAULT
    THEN [ok |-> FALSE, fopts |-> fopts]
    ELSE parse_inject_error_value(string_to_uint_upto(val, MAX_ERRNO_VALUE), val, fopts)

\* fopts->rval = intval, unless intval < 0.
set_rval(n, fopts) ==
    IF n < 0 THEN [ok |-> FALSE, fopts |-> fopts]
    ELSE [ok |-> TRUE, fopts |-> [fopts EXCEPT !.rval = n]]

\* The retval= branch without the test of rval.
parse_inject_retval_overwriting(val, fopts) == set_rval(string_to_uint(val), fopts)

\* The retval= branch.
parse_inject_retval(val, fopts) ==
    IF fopts.rval # INJECT_OPTS_RVAL_DEFAULT
    THEN [ok |-> FALSE, fopts |-> fopts]
    ELSE set_rval(string_to_uint(val), fopts)

\* fopts->signo = intval, unless intval is out of 1..NSIG.
set_signo(n, fopts) ==
    IF n < 1 \/ n > NSIG THEN [ok |-> FALSE, fopts |-> fopts]
    ELSE [ok |-> TRUE, fopts |-> [fopts EXCEPT !.signo = n]]

\* The signal= branch.
parse_inject_signal(val, fopts) == set_signo(sigstr_to_uint(val), fopts)

\* parse_inject_token without the tests of fault_tokens_only.
parse_inject_token_any_syntax(token, fopts, fault_tokens_only) ==
    IF has_prefix(token, <<"w", "h", "e", "n", "=">>)
    THEN parse_inject_when(StrFrom(token, 5), fopts)
    ELSE IF has_prefix(token, <<"e", "r", "r", "o", "r", "=">>)
    THEN parse_inject_error(StrFrom(token, 6), fopts)
    ELSE IF has_prefix(token, <<"r", "e", "t", "v", "a", "l", "=">>)
    THEN parse_inject_retval(StrFrom(token, 7), fopts)
    ELSE IF has_prefix(token, <<"s", "i", "g", "n", "a", "l", "=">>)
    THEN parse_inject_signal(StrFrom(token, 7), fopts)
    ELSE [ok |-> FALSE, fopts |-> fopts]

parse_inject_token(token, fopts, fault_tokens_only) ==
    IF has_prefix(token, <<"w", "h", "e", "n", "=">>)
    THEN parse_inject_when(StrFrom(token, 5), fopts)
    ELSE IF has_prefix(token, <<"e", "r", "r", "o", "r", "=">>)
    THEN parse_inject_error(StrFrom(token, 6), fopts)
    ELSE IF ~fault_tokens_only /\ has_prefix(token, <<"r", "e", "t", "v", "a", "l", "=">>)
    THEN parse_inject_retval(StrFrom(token, 7), fopts)
    ELSE IF ~fault_tokens_only /\ has_prefix(token, <<"s", "i", "g", "n", "a", "l", "=">>)
    THEN parse_inject_signal(StrFrom(token, 7), fopts)
    ELSE [ok |-> FALSE, fopts |-> fopts]

\* The token loop of parse_inject_common_args: the first token that fails
\* ends the function with init still false.  after_inject_token is the loop
\* after one token returned r.
RECURSIVE parse_inject_tokens(_, _, _)
\* The loop going on after a token that failed.
after_inject_token_going_on(r, rest, fault_tokens_only) ==
    parse_inject_tokens(rest, r.fopts, fault_tokens_only)

after_inject_token(r, rest, fault_tokens_only) ==
    IF ~r.ok THEN r
    ELSE parse_inject_tokens(rest, r.fopts, fault_tokens_only)

parse_inject_tokens(tokens, opts, fault_tokens_only) ==
    IF tokens = <<>> THEN [ok |-> TRUE, fopts |-> opts]
    ELSE after_inject_token(parse_inject_token(Head(tokens), opts, fault_tokens_only),
                            Tail(tokens), fault_tokens_only)

\* The post-check with the default of the fault syntax left out.
inject_post_check_no_default(opts, fault_tokens_only) ==
    IF opts.rval = INJECT_OPTS_RVAL_DEFAULT /\ opts.signo = 0
    THEN opts
    ELSE [opts EXCEPT !.init = TRUE]

\* After the loop: the default of the fault syntax, the refusal of inject.
inject_post_check(opts, fault_tokens_only) ==
    IF opts.rval = INJECT_OPTS_RVAL_DEFAULT /\ opts.signo = 0
    THEN IF fault_tokens_only
         THEN [opts EXCEPT !.rval = 0 - ENOSYS, !.init = TRUE]
         ELSE opts
    ELSE [opts EXCEPT !.init = TRUE]

\* parse_inject_common_args after the token loop returned r.
after_inject_loop(r, fault_tokens_only) ==
    IF ~r.ok THEN r.fopts
    ELSE inject_post_check(r.fopts, fault_tokens_only)

\* parse_inject_common_args on a string that is not NULL: the opts.
parse_inject_common_args(str, fault_tokens_only, qualify_mode) ==
    after_inject_loop(
        parse_inject_tokens(Tokens(str, IF qualify_mode THEN <<":">> ELSE <<";">>),
                            [first |-> 1, step |-> 1, rval |-> INJECT_OPTS_RVAL_DEFAULT,
                             signo |-> 0, init |-> FALSE],
                            fault_tokens_only),
        fault_tokens_only)

(***************************************************************************)
(* basic_filters.c: parse_set and the fd and path filters.  parse_set      *)
(* yields [die, set].                                                      *)
(***************************************************************************)
\* while (*s == '!') { set->not = !set->not; ++s; }
RECURSIVE parse_set_bangs(_, _)
parse_set_bangs(s, set) ==
    IF s # <<>> /\ Head(s) = "!"
    THEN parse_set_bangs(Tail(s), [set EXCEPT !.not = ~@])
    ELSE [s |-> s, set |-> set]

\* The token loop of parse_set over numbers, the answers of func for the
\* tokens; number is the last answer, -1 before the first token.
RECURSIVE parse_set_numbers(_, _, _)
parse_set_numbers(numbers, set, number) ==
    IF numbers = <<>> THEN [die |-> number < 0, set |-> set]
    ELSE IF Head(numbers) < 0 THEN [die |-> TRUE, set |-> set]
    ELSE parse_set_numbers(Tail(numbers), add_number_to_set(Head(numbers), set),
                           Head(numbers))

\* func(token) for func a string_to_uint_func, named by its name.
call_func(func, token) ==
    IF func = "sigstr_to_uint" THEN sigstr_to_uint(token) ELSE string_to_uint(token)

\* parse_set after the leading '!': b.s is the rest of the string.
parse_set_list(b, func) ==
    IF b.s = <<"n", "o", "n", "e">> THEN [die |-> FALSE, set |-> b.set]
    ELSE IF b.s = <<"a", "l", "l">>
    THEN [die |-> FALSE, set |-> [b.set EXCEPT !.not = ~@]]
    ELSE parse_set_numbers([i \in 1..Len(Tokens(b.s, <<",">>)) |->
                               call_func(func, Tokens(b.s, <<",">>)[i])],
                           b.set, -1)

parse_set(str, set, func, qualify_mode) ==
    IF qualify_mode
    THEN parse_set_list(parse_set_bangs(str, set), func)
    ELSE parse_set_list([s |-> str, set |-> set], func)

parse_fd_filter(str, qualify_mode) ==
    parse_set(str, empty_number_set, "string_to_uint", qualify_mode)

\* is_fd_in_set that never finds a negative descriptor.
is_fd_in_set_nonnegative_only(fd, set) == fd >= 0 /\ is_number_in_set(fd, set)

is_fd_in_set(fd, set) == IF fd < 0 THEN set.not ELSE is_number_in_set(fd, set)

\* match_fd_common of the environment: the descriptor argument of a syscall
\* of the descriptor class is handed to the predicate.
match_fd_common(tcp, set) ==
    /\ "TRACE_DESC" \in sysent(tcp.personality, tcp.scno).sys_flags
    /\ is_fd_in_set(tcp.u_arg0, set)

\* tcp->s_ent->sen is SEN_mq_timedsend or SEN_mq_timedreceive.
sen_is_mq(tcp) ==
    sysent(tcp.personality, tcp.scno).sys_name
        \in {<<"m", "q", "_", "t", "i", "m", "e", "d", "s", "e", "n", "d">>,
             <<"m", "q", "_", "t", "i", "m", "e", "d", "r", "e", "c", "e", "i", "v", "e">>}

run_fd_filter(tcp, set) ==
    IF sen_is_mq(tcp) THEN is_fd_in_set(tcp.u_arg0, set)
    ELSE match_fd_common(tcp, set)

run_syscall_filter(tcp, set) == is_number_in_set(tcp.scno, set[tcp.personality])

\* pathtrace_match_set of the environment: the answer comes with the event.
run_path_filter(tcp, set) == tcp.path_match

(***************************************************************************)
(* filter.c and filter_expression.c: the filters of an action are a        *)
(* sequence of [name, priv]; its expression is the sequence of the filter  *)
(* indices (from 0) that it conjoins.                                      *)
(***************************************************************************)
add_filter_to_array(filters, name) == Append(filters, [name |-> name, priv |-> "NULL"])

\* set_filter_priv_data on the filter added last.
set_filter_priv_data(filters, priv) == [filters EXCEPT ![Len(filters)].priv = priv]

\* The last filters_left filters stay, the others are freed.
set_filters_qualify_mode(filters, filters_left) ==
    SubSeq(filters, Len(filters) - filters_left + 1, Len(filters))

create_expression == <<>>

\* The conjunction of the filters 0 .. filters_left - 1.
set_expression_qualify_mode(filters_left) == [i \in 1..filters_left |-> i - 1]

expression_add_filter_and(expr, index) == Append(expr, index)

\* parse_filter: the private data of the filter, [die, priv].
parsed_priv(r) == [die |-> r.die, priv |-> r.set]

parse_filter(name, str, qualify_mode) ==
    IF name = "syscall"
    THEN parsed_priv(parse_syscall_filter(str, qualify_mode))
    ELSE parsed_priv(parse_fd_filter(str, qualify_mode))

run_filter(tcp, filter) ==
    IF filter.name = "syscall" THEN run_syscall_filter(tcp, filter.priv)
    ELSE IF filter.name = "fd" THEN run_fd_filter(tcp, filter.priv)
    ELSE run_path_filter(tcp, filter.priv)

\* run_filters: variables_buf[i] for the filter i, here from 1.
run_filters(tcp, filters) == [i \in 1..Len(filters) |-> run_filter(tcp, filters[i])]

run_expression(expr, variables) == \A k \in 1..Len(expr) : variables[expr[k] + 1]

(***************************************************************************)
(* filter_action.c: the action types and the table of actions.  An action  *)
(* is [id, type, expr, filters, priv] with type the place of its type in   *)
(* action_types.  The operations work on g, a record that holds            *)
(* filter_actions and default_flags; find_or_add_action adds at, the place *)
(* of the action it returns, and die.                                      *)
(***************************************************************************)
QualFlags == {"QUAL_TRACE", "QUAL_ABBREV", "QUAL_VERBOSE", "QUAL_RAW",
              "QUAL_INJECT", "QUAL_READ", "QUAL_WRITE"}

\* All qualifier bits.
DEFAULT_QUAL_FLAGS == QualFlags

\* The table with abbrev lacking its prefilter.
action_types_abbrev_unfiltered ==
    << [name |-> "trace",   priority |-> 0, qual_flg |-> "QUAL_TRACE",
        parse_args |-> "parse_null",   prefilter |-> "NULL"],
       [name |-> "inject",  priority |-> 1, qual_flg |-> "QUAL_INJECT",
        parse_args |-> "parse_inject", prefilter |-> "not_injected"],
       [name |-> "fault",   priority |-> 1, qual_flg |-> "QUAL_INJECT",
        parse_args |-> "parse_fault",  prefilter |-> "not_injected"],
       [name |-> "read",    priority |-> 2, qual_flg |-> "QUAL_READ",
        parse_args |-> "parse_null",   prefilter |-> "is_traced"],
       [name |-> "write",   priority |-> 2, qual_flg |-> "QUAL_WRITE",
        parse_args |-> "parse_null",   prefilter |-> "is_traced"],
       [name |-> "raw",     priority |-> 2, qual_flg |-> "QUAL_RAW",
        parse_args |-> "parse_null",   prefilter |-> "is_traced"],
       [name |-> "abbrev",  priority |-> 2, qual_flg |-> "QUAL_ABBREV",
        parse_args |-> "parse_null",   prefilter |-> "NULL"],
       [name |-> "verbose", priority |-> 2, qual_flg |-> "QUAL_VERBOSE",
        parse_args |-> "parse_null",   prefilter |-> "is_traced"] >>

action_types ==
    << [name |-> "trace",   priority |-> 0, qual_flg |-> "QUAL_TRACE",
        parse_args |-> "parse_null",   prefilter |-> "NULL"],
       [name |-> "inject",  priority |-> 1, qual_flg |-> "QUAL_INJECT",
        parse_args |-> "parse_inject", prefilter |-> "not_injected"],
       [name |-> "fault",   priority |-> 1, qual_flg |-> "QUAL_INJECT",
        parse_args |-> "parse_fault",  prefilter |-> "not_injected"],
       [name |-> "read",    priority |-> 2, qual_flg |-> "QUAL_READ",
        parse_args |-> "parse_null",   prefilter |-> "is_traced"],
       [name |-> "write",   priority |-> 2, qual_flg |-> "QUAL_WRITE",
        parse_args |-> "parse_null",   prefilter |-> "is_traced"],
       [name |-> "raw",     priority |-> 2, qual_flg |-> "QUAL_RAW",
        parse_args |-> "parse_null",   prefilter |-> "is_traced"],
       [name |-> "abbrev",  priority |-> 2, qual_flg |-> "QUAL_ABBREV",
        parse_args |-> "parse_null",   prefilter |-> "is_traced"],
       [name |-> "verbose", priority |-> 2, qual_flg |-> "QUAL_VERBOSE",
        parse_args |-> "parse_null",   prefilter |-> "is_traced"] >>

\* struct inject_opts before parse_inject_common_args has run.
no_inject_opts ==
    [first |-> 0, step |-> 0, rval |-> 0, signo |-> 0, init |-> FALSE]

is_traced(tcp) == "QUAL_TRACE" \in tcp.qual_flg

not_injected(tcp) == "QUAL_INJECT" \notin tcp.qual_flg

\* The apply hook of a type: the flag of the type in the mask of the event,
\* and for inject and fault the options of the action.
apply(type, tcp, priv) ==
    IF action_types[type].qual_flg = "QUAL_INJECT"
    THEN [tcp EXCEPT !.qual_flg = @ \cup {"QUAL_INJECT"}, !.inject = priv]
    ELSE [tcp EXCEPT !.qual_flg = @ \cup {action_types[type].qual_flg}]

\* Comparators that keep declaration order among equal priorities.
compare_action_priority_fifo(a, b) ==
    IF action_types[a.type].priority # action_types[b.type].priority
    THEN IF action_types[a.type].priority < action_types[b.type].priority
         THEN -1 ELSE 1
    ELSE IF a.id < b.id THEN -1 ELSE 1

compare_action_priority(a, b) ==
    IF action_types[a.type].priority # action_types[b.type].priority
    THEN IF action_types[a.type].priority < action_types[b.type].priority
         THEN -1 ELSE 1
    ELSE IF a.id > b.id THEN -1 ELSE 1

\* qsort(filter_actions, nfilter_actions, ..., &compare_action_priority).
qsort(base) == SortSeq(base, LAMBDA a, b : compare_action_priority(a, b) < 0)

\* The place in action_types of the type named str, 0 for NULL.
lookup_filter_action_type(str) ==
    IF \E i \in 1..Len(action_types) : action_types[i].name = str
    THEN CHOOSE i \in 1..Len(action_types) :
            /\ action_types[i].name = str
            /\ \A j \in 1..(i - 1) : action_types[j].name # str
    ELSE 0

\* add_action without the update of default_flags.
add_action_keeping_flags(type, g) ==
    [filter_actions |->
        Append(g.filter_actions,
               [id |-> Len(g.filter_actions), type |-> type,
                expr |-> create_expression, filters |-> <<>>, priv |-> no_inject_opts]),
     default_flags |-> g.default_flags]

add_action(type, g) ==
    [filter_actions |->
        Append(g.filter_actions,
               [id |-> Len(g.filter_actions), type |-> type,
                expr |-> create_expression, filters |-> <<>>, priv |-> no_inject_opts]),
     default_flags |-> g.default_flags \ {action_types[type].qual_flg}]

\* The result of find_or_add_action: the action at the place at of g.
action_at(at, g) ==
    [die |-> FALSE, at |-> at,
     filter_actions |-> g.filter_actions, default_flags |-> g.default_flags]

\* The action add_action has returned: the last one.
added_action(g) == action_at(Len(g.filter_actions), g)

\* The first action of the type, 0 without any.
first_action_of(type, actions) ==
    IF \E i \in 1..Len(actions) : actions[i].type = type
    THEN CHOOSE i \in 1..Len(actions) :
            /\ actions[i].type = type
            /\ \A j \in 1..(i - 1) : actions[j].type # type
    ELSE 0

\* find_or_add_action that never looks for an action of the type.
find_or_add_action_type_always_adding(type, g) ==
    IF type = 0
    THEN [die |-> TRUE, at |-> 0,
          filter_actions |-> g.filter_actions, default_flags |-> g.default_flags]
    ELSE added_action(add_action(type, g))

\* find_or_add_action after lookup_filter_action_type.
find_or_add_action_type(type, g) ==
    IF type = 0
    THEN [die |-> TRUE, at |-> 0,
          filter_actions |-> g.filter_actions, default_flags |-> g.default_flags]
    ELSE IF action_types[type].parse_args # "parse_null"
    THEN added_action(add_action(type, g))
    ELSE IF first_action_of(type, g.filter_actions) # 0
    THEN action_at(first_action_of(type, g.filter_actions), g)
    ELSE added_action(add_action(type, g))

find_or_add_action(name, g) == find_or_add_action_type(lookup_filter_action_type(name), g)

create_filter(action, name) ==
    [action EXCEPT !.filters = add_filter_to_array(@, name)]

set_qualify_mode(action, filters_left) ==
    [action EXCEPT !.filters = set_filters_qualify_mode(@, filters_left),
                   !.expr = set_expression_qualify_mode(filters_left)]

set_filter_action_priv_data(action, priv) == [action EXCEPT !.priv = priv]

\* The body of parse_trace, parse_abbrev, parse_verbose, parse_raw, parse_read
\* and parse_write after find_or_add_action returned f: create_filter,
\* parse_filter, which returned p or ended the process, set_qualify_mode.
qualify_filter(f, name, p) ==
    IF f.die THEN f
    ELSE IF p.die
    THEN [f EXCEPT !.die = TRUE, !.filter_actions[f.at] = create_filter(@, name)]
    ELSE [f EXCEPT !.filter_actions[f.at] =
              set_qualify_mode([create_filter(@, name) EXCEPT
                                   !.filters = set_filter_priv_data(@, p.priv)], 1)]

\* parse_inject_common_qualify up to set_qualify_mode.
inject_filter(main_part, fault_tokens_only, g) ==
    qualify_filter(find_or_add_action(IF fault_tokens_only THEN "fault" ELSE "inject", g),
                   "syscall", parse_filter("syscall", main_part, TRUE))

\* parse_inject_common_qualify after parse_inject_common_args filled opts.
inject_qualified(f, opts) ==
    IF f.die THEN f
    ELSE IF ~opts.init THEN [f EXCEPT !.die = TRUE]
    ELSE [f EXCEPT !.filter_actions[f.at] = set_filter_action_priv_data(@, opts)]

\* inject_path_tracing after find_or_add_action returned f:
\* parse_qualify_filter("trace=all") for an action without filters.
trace_all_if_empty(f) ==
    IF f.filter_actions[f.at].filters = <<>>
    THEN qualify_filter(find_or_add_action("trace", f), "syscall",
                        parse_filter("syscall", <<"a", "l", "l">>, TRUE))
    ELSE f

\* The path filter added but not conjoined to the expression.
add_path_filter_not_conjoined(action) ==
    [action EXCEPT
        !.filters = set_filter_priv_data(add_filter_to_array(@, "path"), "global_path_set")]

\* The path filter on global_path_set, conjoined to the expression.
add_path_filter(action) ==
    [action EXCEPT
        !.filters = set_filter_priv_data(add_filter_to_array(@, "path"), "global_path_set"),
        !.expr = expression_add_filter_and(@, Len(action.filters))]

\* inject_path_tracing after the action has a filter.
path_filter_added(f) == [f EXCEPT !.filter_actions[f.at] = add_path_filter(@)]

inject_path_tracing(g) ==
    path_filter_added(trace_all_if_empty(find_or_add_action("trace", g)))

\* The nfilters of the last action, as if the loop kept no maximum.
maxfilters_of_last(actions) ==
    IF actions = <<>> THEN 0 ELSE Len(actions[Len(actions)].filters)

\* The largest nfilters of the actions.
maxfilters(actions) ==
    CHOOSE m \in 0..(Len(actions) + 1) :
        /\ \A i \in 1..Len(actions) : Len(actions[i].filters) <= m
        /\ m = 0 \/ \E i \in 1..Len(actions) : Len(actions[i].filters) = m

\* The prefilter of a type that has one.
prefilter(type, tcp) ==
    IF action_types[type].prefilter = "is_traced" THEN is_traced(tcp)
    ELSE not_injected(tcp)

\* History of filter_syscall: one entry for each call of run_filter_action,
\* with the mask before it, whether run_filters ran, its results, and
\* whether the apply hook was called; after is the event as the call left it.
visit(after, action, before, ran, variables, applied) ==
    [after EXCEPT !.log = Append(@, [id |-> action.id, type |-> action.type,
                                     qual_before |-> before.qual_flg, ran |-> ran,
                                     variables |-> variables, applied |-> applied])]

\* run_filter_action after run_filters wrote variables.
run_action_expression(tcp, action, variables) ==
    IF run_expression(action.expr, variables)
    THEN visit(apply(action.type, tcp, action.priv), action, tcp, TRUE, variables, TRUE)
    ELSE visit(tcp, action, tcp, TRUE, variables, FALSE)

\* run_filter_action without the test of the prefilter.
run_filter_action_no_prefilter(tcp, action) ==
    run_action_expression(tcp, action, run_filters(tcp, action.filters))

run_filter_action(tcp, action) ==
    IF action_types[action.type].prefilter # "NULL" /\ ~prefilter(action.type, tcp)
    THEN visit(tcp, action, tcp, FALSE, <<>>, FALSE)
    ELSE run_action_expression(tcp, action, run_filters(tcp, action.filters))

\* for (i = 0; i < nfilter_actions; ++i) run_filter_action(tcp, &filter_actions[i]);
RECURSIVE run_filter_actions(_, _, _)
run_filter_actions(tcp, actions, i) ==
    IF i > Len(actions) THEN tcp
    ELSE run_filter_actions(run_filter_action(tcp, actions[i]), actions, i + 1)

(***************************************************************************)
(* SpecNum: a number set under any sequence of add and invert-flip.        *)
(***************************************************************************)
\* The numbers added: around the slot boundaries 0, 32, 64.
NumInputs == {n \in 0..MaxNumber : (n % BITS_PER_SLOT) \in {0, 1, BITS_PER_SLOT - 1}}

\* The numbers membership is tested for: one slot beyond the largest added.
NumProbes == 0..(MaxNumber + BITS_PER_SLOT)

InitNumVars ==
    /\ nset = empty_number_set
    /\ nadded = {}

NsAdd(n) ==
    /\ nset' = add_number_to_set(n, nset)
    /\ nadded' = nadded \cup {n}
    /\ UNCHANGED <<sysVars, injVars, pipeVars, sigVars>>

NsFlip ==
    /\ nset' = invert_flip(nset)
    /\ UNCHANGED nadded
    /\ UNCHANGED <<sysVars, injVars, pipeVars, sigVars>>

NextNum ==
    \/ \E n \in NumInputs : NsAdd(n)
    \/ NsFlip

(***************************************************************************)
(* SpecSys: parse_syscall_filter applied to the specifications of          *)
(* SyscallSpecs, in qualify mode and not.                                  *)
(***************************************************************************)
\* k times the character c.
Repeat(c, k) == [i \in 1..k |-> c]

\* The specifications without their leading '!': none, all, names, numbers
\* (in range of both, of one, of no personality), regular expressions
\* (matching, not matching, not compiling), classes (bare, with '%', with
\* no syscall), tokens with '?', lists without any token.
SyscallBodies ==
    { <<"n", "o", "n", "e">>,
      <<"a", "l", "l">>,
      <<"o", "p", "e", "n">>,
      <<"o", "p", "e", "n", ",", "c", "l", "o", "s", "e">>,
      <<"b", "o", "g", "u", "s">>,
      <<"?", "b", "o", "g", "u", "s">>,
      <<"?", "?", "b", "o", "g", "u", "s", ",", "r", "e", "a", "d">>,
      <<"o", "p", "e", "n", ",", "b", "o", "g", "u", "s">>,
      <<"3">>,
      <<"5">>,
      <<"9">>,
      <<"?", "9", ",", "1">>,
      <<"5", "x">>,
      <<"/", "^", "r", "e", "a", "d">>,
      <<"/", "e", "$">>,
      <<"/", "z", "z">>,
      <<"?", "/", "z", "z">>,
      <<"/", "(">>,
      <<"?", "/", "(">>,
      <<"%", "f", "i", "l", "e">>,
      <<"f", "i", "l", "e">>,
      <<"%", "%", "s", "t", "a", "t">>,
      <<"%", "m", "e", "m", "o", "r", "y">>,
      <<"s", "i", "g", "n", "a", "l">>,
      <<"%", "s", "i", "g", "n", "a", "l">>,
      <<"d", "e", "s", "c">>,
      <<"?">>,
      <<>>,
      <<",">> }

SyscallSpecs == {Repeat("!", k) \o b : k \in 0..MaxBangs, b \in SyscallBodies}

InitSysVars ==
    ps = [pc |-> "idle", str |-> <<>>, qualify_mode |-> FALSE,
          die |-> FALSE, set |-> empty_syscall_set]

\* parse_syscall_filter(str, qualify_mode) into freshly allocated sets.
SysParsed(str, qualify_mode, r) ==
    [pc |-> "parsed", str |-> str, qualify_mode |-> qualify_mode,
     die |-> r.die, set |-> r.set]

ParseSyscallFilter(str, qualify_mode) ==
    /\ ps.pc = "idle"
    /\ ps' = SysParsed(str, qualify_mode, parse_syscall_filter(str, qualify_mode))
    /\ UNCHANGED <<numVars, injVars, pipeVars, sigVars>>

\* free_syscall_filter: the sets are released, the next call starts afresh.
FreeSyscallFilter ==
    /\ ps.pc = "parsed"
    /\ ps' = [pc |-> "idle", str |-> <<>>, qualify_mode |-> FALSE,
              die |-> FALSE, set |-> empty_syscall_set]
    /\ UNCHANGED <<numVars, injVars, pipeVars, sigVars>>

NextSys ==
    \/ \E str \in SyscallSpecs, qm \in BOOLEAN : ParseSyscallFilter(str, qm)
    \/ FreeSyscallFilter

(***************************************************************************)
(* SpecInj: parse_inject_common_args applied to argument lists built from  *)
(* token descriptions, in fault and inject syntax, with ':' and ';'.       *)
(***************************************************************************)
\* when=F, when=F+ and when=F+S around the bounds 1 and 65535.
WhenTokens ==
    {[k |-> "when", F |-> f, form |-> fm, S |-> 0, text |-> <<>>] :
        f \in {0, 1, 65535, 65536}, fm \in {"F", "F+"}}
    \cup
    {[k |-> "when", F |-> 65535, form |-> "F+S", S |-> s, text |-> <<>>] :
        s \in {0, 2, 65535, 65536}}
    \cup
    {[k |-> "when", F |-> 0, form |-> "F+S", S |-> 2, text |-> <<>>]}

\* error=, retval=, signal= with the value text, and a token of no kind.
ValueTokens ==
    {[k |-> "error", F |-> 0, form |-> "", S |-> 0, text |-> x] :
        x \in { <<"0">>, <<"3", "8">>, <<"4", "0", "9", "5">>,
                <<"4", "0", "9", "6">>, <<"E", "N", "O", "S", "Y", "S">>,
                <<"e", "i", "o">>, <<"E", "B", "O", "G", "U", "S">> }}
    \cup
    {[k |-> "retval", F |-> 0, form |-> "", S |-> 0, text |-> x] :
        x \in { <<"0">>, <<"7">>, <<"-", "1">> }}
    \cup
    {[k |-> "signal", F |-> 0, form |-> "", S |-> 0, text |-> x] :
        x \in { <<"0">>, <<"6", "4">>, <<"6", "5">>, <<"s", "i", "g", "K", "I", "L", "L">>,
                <<"B", "O", "G", "U", "S">> }}
    \cup
    {[k |-> "junk", F |-> 0, form |-> "", S |-> 0, text |-> <<"1">>]}

InjectTokens == WhenTokens \cup ValueTokens

\* The text of one token.
TokenText(d) ==
    CASE d.k = "when" ->
            <<"w", "h", "e", "n", "=">> \o itoa(d.F)
               \o (IF d.form = "F" THEN <<>> ELSE <<"+">>)
               \o (IF d.form = "F+S" THEN itoa(d.S) ELSE <<>>)
      [] d.k = "error"  -> <<"e", "r", "r", "o", "r", "=">> \o d.text
      [] d.k = "retval" -> <<"r", "e", "t", "v", "a", "l", "=">> \o d.text
      [] d.k = "signal" -> <<"s", "i", "g", "n", "a", "l", "=">> \o d.text
      [] OTHER          -> <<"f", "o", "o", "=">> \o d.text

\* The argument string: the tokens joined by the delimiter.
RECURSIVE ArgsText(_, _)
ArgsText(args, delim) ==
    IF args = <<>> THEN <<>>
    ELSE IF Len(args) = 1 THEN TokenText(args[1])
    ELSE TokenText(args[1]) \o delim \o ArgsText(Tail(args), delim)

InjectArgLists ==
    UNION {[1..n -> InjectTokens] : n \in 0..MaxInjectTokens}

InitInjVars ==
    inj = [pc |-> "idle", args |-> <<>>, null |-> FALSE, fault_tokens_only |-> FALSE,
           qualify_mode |-> FALSE, fatal |-> FALSE,
           opts |-> [first |-> 0, step |-> 0, rval |-> 0, signo |-> 0, init |-> FALSE]]

\* if (!opts->init) error_msg_and_die(...) of parse_inject_common_qualify,
\* the caller of parse_inject_common_args in qualify mode.
inject_qualify_dies(opts, qualify_mode) == qualify_mode /\ ~opts.init

\* parse_inject_common_args(str, opts, fault_tokens_only, qualify_mode) on
\* the text of args and, in qualify mode, the check of opts->init that
\* follows it in parse_inject_common_qualify.
InjParsed(args, null, fault_tokens_only, qualify_mode, opts) ==
    [pc |-> "parsed", args |-> args, null |-> null,
     fault_tokens_only |-> fault_tokens_only, qualify_mode |-> qualify_mode,
     fatal |-> inject_qualify_dies(opts, qualify_mode), opts |-> opts]

ParseInjectArgs(args, fault_tokens_only, qualify_mode) ==
    /\ inj.pc = "idle"
    /\ inj' = InjParsed(args, FALSE, fault_tokens_only, qualify_mode,
                        parse_inject_common_args(
                           ArgsText(args, IF qualify_mode THEN <<":">> ELSE <<";">>),
                           fault_tokens_only, qualify_mode))
    /\ UNCHANGED <<numVars, sysVars, pipeVars, sigVars>>

\* The same with str == NULL (no arguments given): strtok_r(NULL, delim,
\* &saveptr) with saveptr == NULL is undefined; a C library either finds no
\* token or dereferences the null pointer.
ParseInjectArgsNull(fault_tokens_only, qualify_mode) ==
    /\ inj.pc = "idle"
    /\ \/ inj' = InjParsed(<<>>, TRUE, fault_tokens_only, qualify_mode,
                           parse_inject_common_args(<<>>, fault_tokens_only,
                                                    qualify_mode))
       \/ inj' = [pc |-> "crashed", args |-> <<>>, null |-> TRUE,
                  fault_tokens_only |-> fault_tokens_only,
                  qualify_mode |-> qualify_mode, fatal |-> FALSE,
                  opts |-> [first |-> 1, step |-> 1, rval |-> INJECT_OPTS_RVAL_DEFAULT,
                            signo |-> 0, init |-> FALSE]]
    /\ UNCHANGED <<numVars, sysVars, pipeVars, sigVars>>

\* The opts are released; the next call starts afresh.
FreeInjectOpts ==
    /\ inj.pc # "idle"
    /\ inj' = [pc |-> "idle", args |-> <<>>, null |-> FALSE, fault_tokens_only |-> FALSE,
               qualify_mode |-> FALSE, fatal |-> FALSE,
               opts |-> [first |-> 0, step |-> 0, rval |-> 0, signo |-> 0, init |-> FALSE]]
    /\ UNCHANGED <<numVars, sysVars, pipeVars, sigVars>>

NextInj ==
    \/ \E args \in InjectArgLists, f \in BOOLEAN, qm \in BOOLEAN :
          ParseInjectArgs(args, f, qm)
    \/ \E f \in BOOLEAN, qm \in BOOLEAN : ParseInjectArgsNull(f, qm)
    \/ FreeInjectOpts

(***************************************************************************)
(* Spec: the qualifications of the command line in any order, then         *)
(* filtering_parsing_finish, then filter_syscall on events.  The main      *)
(* parts are open, all, read, !open for the syscall filters and 0,1, !1    *)
(* and x, which is no descriptor, for the fd filters.                      *)
(***************************************************************************)
s_open == <<"o", "p", "e", "n">>

s_read == <<"r", "e", "a", "d">>

\* The arguments of fault= and inject=: none (NULL), or a string.
no_args == [null |-> TRUE, str |-> <<>>]

some_args(str) == [null |-> FALSE, str |-> str]

\* A struct tcb as it arrives at filter_syscall.
event(p, n, fd, path_match, qual_flg) ==
    [busy |-> TRUE, personality |-> p, scno |-> n, u_arg0 |-> fd,
     path_match |-> path_match, qual_flg0 |-> qual_flg, qual_flg |-> qual_flg,
     inject |-> no_inject_opts, log |-> <<>>]

\* The events, as <<personality, scno, descriptor>>: read with any of the
\* descriptors, open and mq_timedsend of personality 0, open of personality
\* 1; with QUAL_TRACE already in the mask or not; a path matches only when
\* paths were selected.
Syscalls ==
    {<<0, 0, -1>>, <<0, 0, 1>>, <<0, 0, 2>>, <<0, 2, 1>>, <<0, 6, -1>>, <<0, 6, 1>>,
     <<0, 6, 2>>, <<1, 0, 1>>}

Events ==
    {event(sc[1], sc[2], sc[3], pm, q) :
        sc \in Syscalls, pm \in {FALSE, tracing_paths}, q \in {{}, {"QUAL_TRACE"}}}

no_tcb == [event(0, 0, 0, FALSE, {}) EXCEPT !.busy = FALSE]

no_call == [name |-> "none", nbefore |-> 0, existed |-> FALSE, nafter |-> 0, id |-> 0]

InitPipeVars ==
    /\ filter_actions = <<>>
    /\ default_flags = DEFAULT_QUAL_FLAGS
    /\ variables_buf = [null |-> TRUE, len |-> 0]
    /\ tracing_paths = FALSE
    /\ phase = "parsing"
    /\ faa = no_call
    /\ tcb = no_tcb

\* The process-wide state the operations of filter_action.c work on.
G == [filter_actions |-> filter_actions, default_flags |-> default_flags]

\* History of find_or_add_action(name), which returned f.
call_record(name, f) ==
    [name |-> name, nbefore |-> Len(filter_actions),
     existed |-> \E i \in 1..Len(filter_actions) :
                     action_types[filter_actions[i].type].name = name,
     nafter |-> Len(f.filter_actions), id |-> f.filter_actions[f.at].id]

\* The state after a qualification that left f; it went on to phase end
\* unless it ended the process.
Qualified(name, f, end) ==
    /\ filter_actions' = f.filter_actions
    /\ default_flags' = f.default_flags
    /\ phase' = IF f.die THEN "dead" ELSE end
    /\ faa' = call_record(name, find_or_add_action(name, G))
    /\ UNCHANGED <<variables_buf, tracing_paths, tcb>>
    /\ UNCHANGED <<numVars, sysVars, injVars, sigVars>>

\* A qualification of the action named name can run: the command line is
\* still parsed and the table stays within the bound.
CanQualify(name) ==
    /\ phase = "parsing"
    /\ Len(find_or_add_action(name, G).filter_actions) <= MaxActions

parse_trace(main_part) ==
    /\ CanQualify("trace")
    /\ Qualified("trace", qualify_filter(find_or_add_action("trace", G), "syscall",
                                         parse_filter("syscall", main_part, TRUE)),
                 "parsing")

parse_abbrev(main_part) ==
    /\ CanQualify("abbrev")
    /\ Qualified("abbrev", qualify_filter(find_or_add_action("abbrev", G), "syscall",
                                          parse_filter("syscall", main_part, TRUE)),
                 "parsing")

parse_verbose(main_part) ==
    /\ CanQualify("verbose")
    /\ Qualified("verbose", qualify_filter(find_or_add_action("verbose", G), "syscall",
                                           parse_filter("syscall", main_part, TRUE)),
                 "parsing")

parse_raw(main_part) ==
    /\ CanQualify("raw")
    /\ Qualified("raw", qualify_filter(find_or_add_action("raw", G), "syscall",
                                       parse_filter("syscall", main_part, TRUE)),
                 "parsing")

parse_read(main_part) ==
    /\ CanQualify("read")
    /\ Qualified("read", qualify_filter(find_or_add_action("read", G), "fd",
                                        parse_filter("fd", main_part, TRUE)),
                 "parsing")

parse_write(main_part) ==
    /\ CanQualify("write")
    /\ Qualified("write", qualify_filter(find_or_add_action("write", G), "fd",
                                         parse_filter("fd", main_part, TRUE)),
                 "parsing")

\* parse_inject_common_qualify where strtok_r returns the tokens of args, or
\* no token for args == NULL.
parse_inject_common_qualify(main_part, args, fault_tokens_only) ==
    /\ CanQualify(IF fault_tokens_only THEN "fault" ELSE "inject")
    /\ Qualified(IF fault_tokens_only THEN "fault" ELSE "inject",
                 inject_qualified(inject_filter(main_part, fault_tokens_only, G),
                                  parse_inject_common_args(args.str, fault_tokens_only,
                                                           TRUE)),
                 "parsing")

\* parse_inject_common_qualify with args == NULL where strtok_r(NULL, delim,
\* &saveptr) reads through the null saveptr and the process is killed.
parse_inject_common_qualify_null(main_part, fault_tokens_only) ==
    /\ CanQualify(IF fault_tokens_only THEN "fault" ELSE "inject")
    /\ ~inject_filter(main_part, fault_tokens_only, G).die
    /\ Qualified(IF fault_tokens_only THEN "fault" ELSE "inject",
                 inject_filter(main_part, fault_tokens_only, G), "crashed")

parse_fault(main_part, args) ==
    \/ parse_inject_common_qualify(main_part, args, TRUE)
    \/ args.null /\ parse_inject_common_qualify_null(main_part, TRUE)

parse_inject(main_part, args) ==
    \/ parse_inject_common_qualify(main_part, args, FALSE)
    \/ args.null /\ parse_inject_common_qualify_null(main_part, FALSE)

\* pathtrace_select of the environment (option -P): paths are traced.
pathtrace_select ==
    /\ phase = "parsing"
    /\ ~tracing_paths
    /\ tracing_paths' = TRUE
    /\ UNCHANGED <<filter_actions, default_flags, variables_buf, phase, faa, tcb>>
    /\ UNCHANGED <<numVars, sysVars, injVars, sigVars>>

\* filtering_parsing_finish from the sort on; g is the state before it.
sort_and_allocate(g) ==
    /\ filter_actions' = IF g.filter_actions = <<>> THEN <<>> ELSE qsort(g.filter_actions)
    /\ default_flags' = g.default_flags
    /\ variables_buf' = IF g.filter_actions = <<>> THEN variables_buf
                        ELSE [null |-> FALSE, len |-> maxfilters(g.filter_actions)]

filtering_parsing_finish ==
    /\ phase = "parsing"
    /\ IF tracing_paths
       THEN /\ sort_and_allocate(inject_path_tracing(G))
            /\ faa' = call_record("trace", find_or_add_action("trace", G))
       ELSE /\ sort_and_allocate(G)
            /\ faa' = faa
    /\ phase' = "tracing"
    /\ UNCHANGED <<tracing_paths, tcb>>
    /\ UNCHANGED <<numVars, sysVars, injVars, sigVars>>

filter_syscall(e) ==
    /\ phase = "tracing"
    /\ tcb' = run_filter_actions([e EXCEPT !.qual_flg = @ \cup default_flags],
                                 filter_actions, 1)
    /\ UNCHANGED <<filter_actions, default_flags, variables_buf, tracing_paths, phase, faa>>
    /\ UNCHANGED <<numVars, sysVars, injVars, sigVars>>

Next ==
    \/ \E main_part \in {s_open, <<"a", "l", "l">>} : parse_trace(main_part)
    \/ \E main_part \in {s_read} : parse_abbrev(main_part)
    \/ \E main_part \in {s_read} : parse_verbose(main_part)
    \/ \E main_part \in {<<"!">> \o s_open} : parse_raw(main_part)
    \/ \E main_part \in {<<"0", ",", "1">>} : parse_read(main_part)
    \/ \E main_part \in {<<"!", "1">>, <<"x">>} : parse_write(main_part)
    \/ \E args \in {no_args, some_args(<<"e", "r", "r", "o", "r", "=", "1">>)} :
           parse_fault(s_open, args)
    \/ \E args \in {no_args, some_args(<<"r", "e", "t", "v", "a", "l", "=", "1">>)} :
           parse_inject(s_read, args)
    \/ pathtrace_select
    \/ filtering_parsing_finish
    \/ \E e \in Events : filter_syscall(e)

(***************************************************************************)
(* The specifications.                                                     *)
(***************************************************************************)
(***************************************************************************)
(* SpecSig: the signal qualifications of the command line, among           *)
(* qualifications that register an action.                                 *)
(***************************************************************************)
\* The main parts of the signal qualifications: all and none, names with
\* and without SIG in either case, a number of the second slot, '!', and
\* lists that are not valid.
SignalSpecs ==
    { <<"a", "l", "l">>,
      <<"n", "o", "n", "e">>,
      <<"!", "n", "o", "n", "e">>,
      <<"I", "N", "T">>,
      <<"!", "i", "n", "t">>,
      <<"S", "I", "G", "K", "I", "L", "L", ",", "1", "5">>,
      <<"4", "0">>,
      <<"b", "o", "g", "u", "s">>,
      <<>> }

\* struct number_set signal_set: a global, zeroed at program start.
InitSigVars ==
    /\ signal_set = empty_number_set
    /\ qs = [called |-> FALSE, main_part |-> <<>>, die |-> FALSE]

\* The set after a memset that leaves the invert flag as it is.
clear_signal_set_keeping_not(set) ==
    [set EXCEPT !.vec = [i \in 1..set.nslots |-> {}]]

\* The set after memset(signal_set.vec, 0, ...) and signal_set.not = false.
clear_signal_set(set) ==
    [set EXCEPT !.vec = [i \in 1..set.nslots |-> {}], !.not = FALSE]

\* qualify_signals with r the result of parse_set on the cleared set.
signals_qualified(main_part, r) ==
    /\ signal_set' = r.set
    /\ qs' = [called |-> TRUE, main_part |-> main_part, die |-> r.die]
    /\ phase' = IF r.die THEN "dead" ELSE phase

qualify_signals(main_part) ==
    /\ phase = "parsing"
    /\ signals_qualified(main_part,
                         parse_set(main_part, clear_signal_set(signal_set),
                                   "sigstr_to_uint", TRUE))
    /\ UNCHANGED <<filter_actions, default_flags, variables_buf, tracing_paths, faa, tcb>>
    /\ UNCHANGED <<numVars, sysVars, injVars>>

NextSig ==
    \/ \E main_part \in SignalSpecs : qualify_signals(main_part)
    \/ \E main_part \in {s_open} : parse_trace(main_part)
    \/ \E main_part \in {<<"0", ",", "1">>} : parse_read(main_part)

Init == InitNumVars /\ InitSysVars /\ InitInjVars /\ InitPipeVars /\ InitSigVars

Spec == Init /\ [][Next]_vars

SpecNum == Init /\ [][NextNum]_vars

SpecSys == Init /\ [][NextSys]_vars

SpecInj == Init /\ [][NextInj]_vars

SpecSig == Init /\ [][NextSig]_vars

(***************************************************************************)
(* Vocabulary of the claims about the table of actions and filter_syscall. *)
(***************************************************************************)
Priority(a) == action_types[a.type].priority

NActions == Len(filter_actions)

\* The qualifier flags of the types that have an action.
FlagsOfActions == {action_types[filter_actions[i].type].qual_flg : i \in 1..NActions}

\* The type takes no arguments.
Argumentless(name) ==
    \E t \in 1..Len(action_types) :
        action_types[t].name = name /\ action_types[t].parse_args = "parse_null"

ActionsOfType(name) ==
    {i \in 1..NActions : action_types[filter_actions[i].type].name = name}

\* The verdict of the prefilter of the type on a qualification mask.
PrefilterAccepts(type, mask) ==
    CASE action_types[type].prefilter = "NULL" -> TRUE
      [] action_types[type].prefilter = "is_traced" -> "QUAL_TRACE" \in mask
      [] action_types[type].prefilter = "not_injected" -> "QUAL_INJECT" \notin mask

\* The expression of the action is true of the results of its filters on
\* the last event.
ExpressionTrue(a) ==
    \A k \in 1..Len(a.expr) : run_filter(tcb, a.filters[a.expr[k] + 1])

\* The mask of the last event after the i first actions were visited.
MaskAfter(i) ==
    IF i = 0 THEN tcb.qual_flg0 \cup default_flags
    ELSE IF tcb.log[i].applied
         THEN tcb.log[i].qual_before \cup {action_types[tcb.log[i].type].qual_flg}
         ELSE tcb.log[i].qual_before

\* filter_syscall visited every action once, in the order of the table.
VisitedInOrder ==
    /\ Len(tcb.log) = NActions
    /\ \A i \in 1..NActions : tcb.log[i].id = filter_actions[i].id

\* C1: after filtering_parsing_finish the ids are pairwise distinct, the
\* table is ordered by priority ascending and, among equal priorities, by
\* id descending, and filter_syscall runs the actions in that order.
C1_SortedByPriorityThenLifo ==
    phase = "tracing" =>
        /\ \A i, j \in 1..NActions :
               i # j => filter_actions[i].id # filter_actions[j].id
        /\ \A i, j \in 1..NActions :
               i < j =>
                   \/ Priority(filter_actions[i]) < Priority(filter_actions[j])
                   \/ /\ Priority(filter_actions[i]) = Priority(filter_actions[j])
                      /\ filter_actions[i].id > filter_actions[j].id
        /\ tcb.busy => VisitedInOrder

\* Three actions of two priorities, declared in another order than they
\* run, and an event has been filtered.
C1_Witness ==
    /\ phase = "tracing"
    /\ tcb.busy
    /\ NActions = 3
    /\ Priority(filter_actions[1]) < Priority(filter_actions[2])
    /\ Priority(filter_actions[2]) = Priority(filter_actions[3])
    /\ filter_actions[1].id = 1
    /\ filter_actions[2].id = 2
    /\ filter_actions[3].id = 0

\* C2: default_flags starts with all qualifier bits; in every state it holds
\* exactly the bits of the types without an action, and no step sets a bit.
C2_DefaultFlagsOnlyShrink ==
    /\ [](default_flags = QualFlags \ FlagsOfActions)
    /\ [][default_flags' \subseteq default_flags]_vars

\* Two actions share a flag, a bit is cleared, another is still set, and an
\* event has been filtered.
C2_Witness ==
    /\ phase = "tracing"
    /\ tcb.busy
    /\ \E i, j \in 1..NActions :
           /\ i # j
           /\ action_types[filter_actions[i].type].qual_flg
                  = action_types[filter_actions[j].type].qual_flg
    /\ "QUAL_INJECT" \notin default_flags
    /\ "QUAL_TRACE" \in default_flags

\* C3: there is at most one action of an argumentless type; the last call
\* of find_or_add_action for such a type returned the action of that type
\* and left the count alone if there was one, and added one otherwise; for
\* inject and fault it added one action, the last.
C3_FindOrAddIdempotent ==
    /\ \A t \in 1..Len(action_types) :
           Argumentless(action_types[t].name) =>
               Cardinality(ActionsOfType(action_types[t].name)) <= 1
    /\ faa.name # "none" =>
           /\ \E i \in ActionsOfType(faa.name) : filter_actions[i].id = faa.id
           /\ IF Argumentless(faa.name) /\ faa.existed
              THEN faa.nafter = faa.nbefore
              ELSE faa.nafter = faa.nbefore + 1 /\ faa.id = faa.nbefore

\* A call for an argumentless type found its action, in a table with two
\* actions of one argumented type.
C3_Witness ==
    /\ faa.existed
    /\ Argumentless(faa.name)
    /\ faa.nafter = faa.nbefore
    /\ \E name \in {"inject", "fault"} : Cardinality(ActionsOfType(name)) = 2

\* C4: filter_syscall has ORed default_flags into the mask, then visited
\* every action once in the order of the table; the apply hook of an action
\* ran iff its prefilter, if any, accepted the mask as it was then and its
\* expression is true of its filters; after a rejection neither the filters
\* nor the hook ran.
C4_PrefilterThenExpression ==
    tcb.busy =>
        /\ VisitedInOrder
        /\ (tcb.qual_flg0 \cup default_flags) \subseteq tcb.qual_flg
        /\ tcb.qual_flg = MaskAfter(Len(tcb.log))
        /\ \A i \in 1..Len(tcb.log) :
               /\ tcb.log[i].qual_before = MaskAfter(i - 1)
               /\ tcb.log[i].applied <=>
                      /\ PrefilterAccepts(tcb.log[i].type, tcb.log[i].qual_before)
                      /\ ExpressionTrue(filter_actions[i])
               /\ tcb.log[i].ran <=>
                      PrefilterAccepts(tcb.log[i].type, tcb.log[i].qual_before)

\* One event met a rejecting prefilter, a true expression and a false one.
C4_Witness ==
    /\ tcb.busy
    /\ \E i \in 1..Len(tcb.log) : ~tcb.log[i].ran
    /\ \E i \in 1..Len(tcb.log) : tcb.log[i].applied
    /\ \E i \in 1..Len(tcb.log) : tcb.log[i].ran /\ ~tcb.log[i].applied

\* The table after trace=open, then abbrev=read, then finalisation without
\* path tracing.
TraceOpenAbbrevRead ==
    /\ phase = "tracing"
    /\ ~tracing_paths
    /\ NActions = 2
    /\ \E i, j \in 1..NActions :
           /\ action_types[filter_actions[i].type].name = "trace"
           /\ filter_actions[i].id = 0
           /\ filter_actions[i].filters =
                  <<[name |-> "syscall", priv |-> parse_syscall_filter(s_open, TRUE).set]>>
           /\ action_types[filter_actions[j].type].name = "abbrev"
           /\ filter_actions[j].id = 1
           /\ filter_actions[j].filters =
                  <<[name |-> "syscall", priv |-> parse_syscall_filter(s_read, TRUE).set]>>

\* The last event is a read.
EventIsRead ==
    tcb.busy /\ sysent(tcb.personality, tcb.scno).sys_name = s_read

TraceBeforeAbbrev ==
    /\ action_types[filter_actions[1].type].name = "trace"
    /\ Priority(filter_actions[1]) = 0
    /\ action_types[filter_actions[2].type].name = "abbrev"
    /\ Priority(filter_actions[2]) = 2

BitsOf(set) ==
    {n \in 0..(set.nslots * BITS_PER_SLOT - 1) : number_isset(n, set.vec)}

\* The string of the last parse without its j first characters, its tokens,
\* and a token without its '?' prefixes.
ParsedTokens(j) == Tokens(StrFrom(ps.str, j), <<",">>)

Unprefixed(token) == StrFrom(token, CountLeading(token, "?"))

IsNoneOrAll(s) == s = <<"n", "o", "n", "e">> \/ s = <<"a", "l", "l">>

\* The syscalls of personality p that a token without prefix selects, branch
\* by branch: a number in range, the names a regular expression matches, the
\* syscalls of a class, the syscalls of that name.
TokenSelects(tok, p, qualify_mode) ==
    IF isdigit(CharAt(tok, 1))
    THEN {n \in 0..(nsyscall_vec[p] - 1) : n = string_to_uint(tok)}
    ELSE IF CharAt(tok, 1) = "/"
    THEN {i \in 0..(nsyscall_vec[p] - 1) :
             sysent(p, i).named /\ regexec(StrFrom(tok, 1), sysent(p, i).sys_name)}
    ELSE IF lookup_class(tok, qualify_mode) # {}
    THEN {i \in 0..(nsyscall_vec[p] - 1) :
             sysent(p, i).named
             /\ lookup_class(tok, qualify_mode) \subseteq sysent(p, i).sys_flags}
    ELSE {i \in 0..(nsyscall_vec[p] - 1) :
             sysent(p, i).named /\ sysent(p, i).sys_name = tok}

\* The token goes through one of the branches.
TokenMatches(tok, qualify_mode) ==
    \/ ~isdigit(CharAt(tok, 1)) /\ CharAt(tok, 1) # "/"
       /\ lookup_class(tok, qualify_mode) # {}
    \/ \E p \in Personalities : TokenSelects(tok, p, qualify_mode) # {}

\* The token is a regular expression that does not compile.
TokenBadRegex(tok) == CharAt(tok, 1) = "/" /\ ~regcomp(StrFrom(tok, 1))

(***************************************************************************)
(* C7: for every number set reached by adds and invert flips and every n,  *)
(* contains(n) = (n was added) XOR invert; an index beyond the allocated   *)
(* slots counts as not added; a second add of n changes nothing; the slots *)
(* never shrink and no set bit is lost (every added number is still a set  *)
(* bit of vec).                                                            *)
(***************************************************************************)
C7_Contains ==
    /\ \A n \in NumProbes : is_number_in_set(n, nset) = ((n \in nadded) # nset.not)
    /\ \A n \in NumProbes :
          (n \div BITS_PER_SLOT) >= nset.nslots => is_number_in_set(n, nset) = nset.not
    /\ \A n \in nadded :
          /\ (n \div BITS_PER_SLOT) < nset.nslots
          /\ number_isset(n, nset.vec)
          /\ add_number_to_set(n, nset) = nset
    /\ nset.nslots = Len(nset.vec)

\* Two slots are allocated, an earlier bit of slot 0 survived the growth,
\* and the set is inverted.
C7_Witness ==
    /\ nset.nslots >= 2
    /\ 1 \in nadded /\ 33 \in nadded
    /\ nset.not
    /\ ~is_number_in_set(1, nset)
    /\ is_number_in_set(2, nset)

(***************************************************************************)
(* C6: in qualify mode, a specification with k leading '!' parses as the   *)
(* specification without j <= k of them (same outcome, same bits in every  *)
(* personality) with the invert flag XORed by j mod 2; all personalities   *)
(* have the same invert flag after any parse; without qualify mode a       *)
(* leading '!' inverts nothing (it is part of the first token, which names *)
(* no syscall, so the parse is fatal).                                     *)
(***************************************************************************)
C6_BangParity ==
    ps.pc = "parsed" =>
        /\ ps.qualify_mode =>
              \A j \in 0..CountLeading(ps.str, "!") :
                 LET r == parse_syscall_filter(StrFrom(ps.str, j), TRUE)
                 IN  /\ r.die = ps.die
                     /\ ~ps.die =>
                           \A p \in Personalities :
                              /\ BitsOf(ps.set[p]) = BitsOf(r.set[p])
                              /\ ps.set[p].not = (r.set[p].not # (j % 2 = 1))
        /\ \A p, q \in Personalities : ps.set[p].not = ps.set[q].not
        /\ (~ps.qualify_mode /\ CountLeading(ps.str, "!") > 0) =>
              /\ ps.die
              /\ \A p \in Personalities : ~ps.set[p].not

\* "!!open,close" was parsed in qualify mode: not inverted, bits of open
\* and close; and "!%file" gave an inverted set.
C6_Witness ==
    /\ ps.pc = "parsed" /\ ps.qualify_mode /\ ~ps.die
    /\ CountLeading(ps.str, "!") = 2
    /\ StrFrom(ps.str, 2) = <<"o", "p", "e", "n", ",", "c", "l", "o", "s", "e">>
    /\ ~ps.set[0].not /\ ~ps.set[1].not
    /\ BitsOf(ps.set[0]) = {2, 3}
    /\ BitsOf(ps.set[1]) = {0}

(***************************************************************************)
(* C8 as stated: for a list other than none/all, the parse is fatal        *)
(* exactly when it has no token or some token matches through none of the  *)
(* branches and has no '?' prefix; a token with a '?' prefix never is.     *)
(***************************************************************************)
C8_FatalUnlessQuestionMark ==
    LET k    == IF ps.qualify_mode THEN CountLeading(ps.str, "!") ELSE 0
        toks == ParsedTokens(k)
    IN  (ps.pc = "parsed" /\ ~IsNoneOrAll(StrFrom(ps.str, k))) =>
           (ps.die <=>
               \/ toks = <<>>
               \/ \E i \in 1..Len(toks) :
                     /\ ~TokenMatches(Unprefixed(toks[i]), ps.qualify_mode)
                     /\ CountLeading(toks[i], "?") = 0)

(***************************************************************************)
(* C8, amended: the parse is fatal exactly when the list has no token, or  *)
(* a token without '?' prefix matches through none of the branches, or a   *)
(* token (with or without '?') is a regular expression that does not       *)
(* compile; otherwise every token that matches nothing carried a '?', was  *)
(* skipped with the sets unchanged, and the sets hold exactly what the     *)
(* other tokens select.                                                    *)
(***************************************************************************)
C8_FatalUnlessQuestionMarkOrBadRegex ==
    LET k    == IF ps.qualify_mode THEN CountLeading(ps.str, "!") ELSE 0
        toks == ParsedTokens(k)
    IN  (ps.pc = "parsed" /\ ~IsNoneOrAll(StrFrom(ps.str, k))) =>
           /\ ps.die <=>
                 \/ toks = <<>>
                 \/ \E i \in 1..Len(toks) :
                       \/ /\ ~TokenMatches(Unprefixed(toks[i]), ps.qualify_mode)
                          /\ CountLeading(toks[i], "?") = 0
                       \/ TokenBadRegex(Unprefixed(toks[i]))
           /\ ~ps.die =>
                 \A p \in Personalities :
                    /\ BitsOf(ps.set[p]) =
                          UNION {TokenSelects(Unprefixed(toks[i]), p, ps.qualify_mode) :
                                    i \in 1..Len(toks)}
                    /\ ps.set[p].not = (k % 2 = 1)

\* "??bogus,read" was parsed: bogus was skipped and read was added.
C8_Witness ==
    /\ ps.pc = "parsed" /\ ~ps.die
    /\ ps.str = <<"?", "?", "b", "o", "g", "u", "s", ",", "r", "e", "a", "d">>
    /\ BitsOf(ps.set[0]) = {0}
    /\ BitsOf(ps.set[1]) = {1}


(***************************************************************************)
(* Vocabulary of the claims about the injection options.                   *)
(***************************************************************************)
\* The positions of the when= tokens of the last argument list.
WhenPositions == {i \in 1..Len(inj.args) : inj.args[i].k = "when"}

\* F is in 1..65535 and S, if present, is in 1..65535.
WhenValid(d) ==
    /\ d.F \in 1..65535
    /\ d.form = "F+S" => d.S \in 1..65535

\* The step a when= token stands for.
WhenStep(d) == IF d.form = "F" THEN 0 ELSE IF d.form = "F+" THEN 1 ELSE d.S

\* error=ENOSYS as a token.
ErrorENOSYS ==
    [k |-> "error", F |-> 0, form |-> "", S |-> 0,
     text |-> <<"E", "N", "O", "S", "Y", "S">>]

(***************************************************************************)
(* C9: when the token loop ends with neither rval nor signo set (every     *)
(* token is a valid when=, or there is no token), the fault syntax yields  *)
(* initialised opts with rval = -ENOSYS, signo = 0 and the first and step  *)
(* of the when= tokens (1 and 1 without any), the same opts as the list    *)
(* with error=ENOSYS appended; the inject syntax leaves init false, rval   *)
(* the default and signo 0, and the qualify front-end ends the process.    *)
(***************************************************************************)
C9_FaultDefaultsToENOSYS ==
    (inj.pc = "parsed" /\ \A i \in 1..Len(inj.args) :
                             inj.args[i].k = "when" /\ WhenValid(inj.args[i])) =>
        /\ inj.fault_tokens_only =>
              /\ inj.opts.init /\ ~inj.fatal
              /\ inj.opts.rval = 0 - ENOSYS
              /\ inj.opts.signo = 0
              /\ inj.args = <<>> => inj.opts.first = 1 /\ inj.opts.step = 1
              /\ inj.opts =
                    parse_inject_common_args(
                       ArgsText(Append(inj.args, ErrorENOSYS),
                                IF inj.qualify_mode THEN <<":">> ELSE <<";">>),
                       TRUE, inj.qualify_mode)
        /\ ~inj.fault_tokens_only =>
              /\ ~inj.opts.init
              /\ inj.opts.rval = INJECT_OPTS_RVAL_DEFAULT
              /\ inj.opts.signo = 0
              /\ inj.qualify_mode => inj.fatal

\* fault syntax without any token gave {1, 1, -ENOSYS, 0, initialised}.
C9_Witness ==
    /\ inj.pc = "parsed" /\ inj.fault_tokens_only /\ inj.args = <<>>
    /\ inj.opts = [first |-> 1, step |-> 1, rval |-> -38, signo |-> 0, init |-> TRUE]

(***************************************************************************)
(* C10: without a when= token first and step are 1 and 1; opts that are    *)
(* initialised had only valid when= tokens (F in 1..65535 and S, when      *)
(* present, in 1..65535) and hold the F of the last one as first and 0     *)
(* (when=F), 1 (when=F+) or S (when=F+S) as step, not truncated; in fault  *)
(* syntax a list of when= tokens is accepted exactly when all are valid.   *)
(***************************************************************************)
C10_WhenFirstStep ==
    inj.pc = "parsed" =>
        /\ WhenPositions = {} => inj.opts.first = 1 /\ inj.opts.step = 1
        /\ inj.opts.init => \A i \in WhenPositions : WhenValid(inj.args[i])
        /\ (inj.opts.init /\ WhenPositions # {}) =>
              LET d == inj.args[CHOOSE i \in WhenPositions :
                                   \A j \in WhenPositions : j <= i]
              IN  /\ inj.opts.first = d.F
                  /\ inj.opts.step = WhenStep(d)
        /\ (inj.fault_tokens_only /\ WhenPositions = 1..Len(inj.args)) =>
              (inj.opts.init <=> \A i \in WhenPositions : WhenValid(inj.args[i]))

\* when=65535+65535 was accepted and stored as (65535, 65535).
C10_Witness ==
    /\ inj.pc = "parsed" /\ inj.opts.init
    /\ Len(inj.args) = 1
    /\ inj.args[1].k = "when" /\ inj.args[1].F = 65535 /\ inj.args[1].S = 65535
    /\ inj.opts.first = 65535 /\ inj.opts.step = 65535

(***************************************************************************)
(* Vocabulary of the claims about the tokens of an injection argument      *)
(* list: the value each value text of the model stands for, -1 for a text  *)
(* that is no value.                                                       *)
(***************************************************************************)
ErrorValue(d) ==
    CASE d.text = <<"0">> -> 0
      [] d.text = <<"3", "8">> -> 38
      [] d.text = <<"4", "0", "9", "5">> -> 4095
      [] d.text = <<"4", "0", "9", "6">> -> 4096
      [] d.text = <<"E", "N", "O", "S", "Y", "S">> -> 38
      [] d.text = <<"e", "i", "o">> -> 5
      [] OTHER -> -1

RetvalValue(d) ==
    CASE d.text = <<"0">> -> 0
      [] d.text = <<"7">> -> 7
      [] OTHER -> -1

SignalValue(d) ==
    CASE d.text = <<"0">> -> 0
      [] d.text = <<"6", "4">> -> 64
      [] d.text = <<"6", "5">> -> 65
      [] d.text = <<"s", "i", "g", "K", "I", "L", "L">> -> 9
      [] OTHER -> -1

\* The positions of the error= and retval= tokens of the last list.
RvalPositions == {i \in 1..Len(inj.args) : inj.args[i].k \in {"error", "retval"}}

\* The token is of a kind the syntax knows and its value is valid.
TokenValid(d, fault_tokens_only) ==
    CASE d.k = "when" -> WhenValid(d)
      [] d.k = "error" -> ErrorValue(d) \in 1..4095
      [] d.k = "retval" -> ~fault_tokens_only /\ RetvalValue(d) >= 0
      [] d.k = "signal" -> ~fault_tokens_only /\ SignalValue(d) \in 1..64
      [] OTHER -> FALSE

\* The token at i is accepted: it is valid and no error= or retval= token
\* comes before it if it is one itself.
TokenAccepted(i) ==
    /\ TokenValid(inj.args[i], inj.fault_tokens_only)
    /\ i \in RvalPositions => \A j \in RvalPositions : i <= j

\* The first token that is not accepted, 0 if all are.
FirstRejected ==
    IF \A i \in 1..Len(inj.args) : TokenAccepted(i) THEN 0
    ELSE CHOOSE i \in 1..Len(inj.args) :
            ~TokenAccepted(i) /\ \A j \in 1..(i - 1) : TokenAccepted(j)

\* C11: a list with two tokens among error= and retval= is rejected; the
\* second of them is rejected when the tokens before it are accepted; in an
\* accepted list error=E has stored rval = -E with E in 1..MAX_ERRNO_VALUE
\* and retval=N has stored rval = N >= 0.
C11_OneErrorOrRetval ==
    inj.pc = "parsed" =>
        /\ inj.opts.init => Cardinality(RvalPositions) <= 1
        /\ \A i, j \in RvalPositions :
               (i < j /\ \A k \in 1..(j - 1) : TokenAccepted(k)) =>
                   /\ FirstRejected = j
                   /\ ~inj.opts.init
                   /\ inj.qualify_mode => inj.fatal
        /\ \A i \in RvalPositions :
               inj.opts.init =>
                   IF inj.args[i].k = "error"
                   THEN /\ ErrorValue(inj.args[i]) \in 1..MAX_ERRNO_VALUE
                        /\ inj.opts.rval = 0 - ErrorValue(inj.args[i])
                   ELSE /\ RetvalValue(inj.args[i]) >= 0
                        /\ inj.opts.rval = RetvalValue(inj.args[i])

\* retval=7 was accepted and the error=38 after it rejected.
C11_Witness ==
    /\ inj.pc = "parsed" /\ ~inj.fault_tokens_only
    /\ Len(inj.args) = 2
    /\ inj.args[1].k = "retval" /\ inj.args[1].text = <<"7">>
    /\ inj.args[2].k = "error" /\ inj.args[2].text = <<"3", "8">>
    /\ inj.opts.rval = 7 /\ ~inj.opts.init

\* C12: in fault syntax a list with a retval= or a signal= token is
\* rejected, fatally in the qualify front-end; in inject syntax a list of
\* accepted tokens with a retval= or a signal= among them is accepted, with
\* the retval as rval and the last signal as signo.
C12_RetvalSignalInjectOnly ==
    inj.pc = "parsed" =>
        /\ (inj.fault_tokens_only
              /\ \E i \in 1..Len(inj.args) : inj.args[i].k \in {"retval", "signal"}) =>
               /\ ~inj.opts.init
               /\ inj.qualify_mode => inj.fatal
        /\ (~inj.fault_tokens_only /\ FirstRejected = 0
              /\ \E i \in 1..Len(inj.args) : inj.args[i].k \in {"retval", "signal"}) =>
               /\ inj.opts.init /\ ~inj.fatal
               /\ \A i \in 1..Len(inj.args) :
                      /\ inj.args[i].k = "retval" =>
                             inj.opts.rval = RetvalValue(inj.args[i])
                      /\ (inj.args[i].k = "signal"
                            /\ \A j \in (i + 1)..Len(inj.args) : inj.args[j].k # "signal") =>
                             inj.opts.signo = SignalValue(inj.args[i])

\* when=1 and a valid signal=64 were rejected in fault syntax.
C12_Witness ==
    /\ inj.pc = "parsed" /\ inj.fault_tokens_only /\ inj.qualify_mode
    /\ Len(inj.args) = 2
    /\ inj.args[1].k = "when" /\ WhenValid(inj.args[1])
    /\ inj.args[2].k = "signal" /\ inj.args[2].text = <<"6", "4">>
    /\ ~inj.opts.init /\ inj.fatal

\* C15: init is true iff every token was accepted and the post-check
\* passed (fault syntax, or rval or signo set); the tokens after the first
\* rejected one have no effect; initialised opts have rval or signo set;
\* the qualify front-end ends the process iff init is false.
C15_InitIffAllAccepted ==
    inj.pc = "parsed" =>
        /\ inj.opts.init <=>
               /\ FirstRejected = 0
               /\ \/ inj.fault_tokens_only
                  \/ inj.opts.rval # INJECT_OPTS_RVAL_DEFAULT
                  \/ inj.opts.signo # 0
        /\ inj.opts.init =>
               inj.opts.rval # INJECT_OPTS_RVAL_DEFAULT \/ inj.opts.signo # 0
        /\ FirstRejected # 0 =>
               inj.opts =
                   parse_inject_common_args(
                       ArgsText(SubSeq(inj.args, 1, FirstRejected),
                                IF inj.qualify_mode THEN <<":">> ELSE <<";">>),
                       inj.fault_tokens_only, inj.qualify_mode)
        /\ inj.qualify_mode => (inj.fatal <=> ~inj.opts.init)

\* The first token was rejected and the valid signal= after it not read.
C15_Witness ==
    /\ inj.pc = "parsed" /\ ~inj.fault_tokens_only /\ inj.qualify_mode
    /\ Len(inj.args) = 2
    /\ FirstRejected = 1
    /\ inj.args[2].k = "signal" /\ SignalValue(inj.args[2]) = 9
    /\ inj.opts.signo = 0 /\ ~inj.opts.init /\ inj.fatal

(***************************************************************************)
(* Vocabulary of the claims about the fd filter.                           *)
(***************************************************************************)
\* What the claim says of a descriptor and a set: the invert flag for a
\* negative descriptor, contains(fd) otherwise.
FdSelected(fd, set) ==
    IF fd < 0 THEN set.not ELSE (fd \in BitsOf(set)) # set.not

\* The last event is an mq_timedsend.
EventIsMq ==
    tcb.busy /\ sysent(tcb.personality, tcb.scno).sys_name
                   = <<"m", "q", "_", "t", "i", "m", "e", "d", "s", "e", "n", "d">>

\* The visits of the last event where an fd filter ran, as <<i, k>>: the
\* action and the filter.
FdFilterRuns ==
    {v \in (1..Len(tcb.log)) \X (1..2) :
        /\ tcb.log[v[1]].ran
        /\ v[2] <= Len(filter_actions[v[1]].filters)
        /\ filter_actions[v[1]].filters[v[2]].name = "fd"}

\* C13: is_fd_in_set gives the invert flag for a negative descriptor and
\* contains(fd) otherwise; on an mq_timedsend event the result of an fd
\* filter is that of argument 0; the set of read=0,1 matches an
\* mq_timedsend with descriptor 1 and none with descriptor 2 or -1.
C13_FdFilter ==
    EventIsMq =>
        \A v \in FdFilterRuns :
            /\ tcb.log[v[1]].variables[v[2]]
                   = FdSelected(tcb.u_arg0, filter_actions[v[1]].filters[v[2]].priv)
            /\ tcb.log[v[1]].variables[v[2]]
                   = is_fd_in_set(tcb.u_arg0, filter_actions[v[1]].filters[v[2]].priv)
            /\ (/\ BitsOf(filter_actions[v[1]].filters[v[2]].priv) = {0, 1}
                /\ ~filter_actions[v[1]].filters[v[2]].priv.not) =>
                    (tcb.log[v[1]].variables[v[2]] <=> tcb.u_arg0 = 1)

\* mq_timedsend with descriptor 1 matched read=0,1 and with descriptor -1
\* the inverted set of write=!1.
C13_Witness ==
    /\ EventIsMq
    /\ \E v \in FdFilterRuns :
           /\ action_types[tcb.log[v[1]].type].name = "read"
           /\ tcb.u_arg0 = 1
           /\ tcb.log[v[1]].variables[v[2]]
           /\ tcb.log[v[1]].applied

(***************************************************************************)
(* Vocabulary of the claims about filtering_parsing_finish.                *)
(***************************************************************************)
\* The number of filters of all actions.
RECURSIVE CountFilters(_)
CountFilters(actions) ==
    IF actions = <<>> THEN 0
    ELSE Len(Head(actions).filters) + CountFilters(Tail(actions))

\* This step is filtering_parsing_finish.
FinishStep == phase = "parsing" /\ phase' = "tracing"

\* The action is a trace action of a syscall filter and a path filter, both
\* in its expression.
TraceWithPath(a) ==
    /\ action_types[a.type].name = "trace"
    /\ Len(a.filters) = 2
    /\ a.filters[1].name = "syscall"
    /\ a.filters[2].name = "path"
    /\ a.expr = <<0, 1>>

\* After finalisation with path tracing: one trace action, of a syscall
\* filter and the path filter, and no TRACE in default_flags; a trace
\* action that finalisation had to add has the set of trace=all; the hook
\* of the trace action ran on the last event iff the event is in the
\* syscall set and matches the path set.
PathTracingFinished ==
    (phase = "tracing" /\ tracing_paths) =>
        /\ Cardinality(ActionsOfType("trace")) = 1
        /\ "QUAL_TRACE" \notin default_flags
        /\ \A i \in ActionsOfType("trace") :
               /\ TraceWithPath(filter_actions[i])
               /\ ~faa.existed =>
                      \A p \in Personalities :
                          \A n \in 0..(nsyscall_vec[p] - 1) :
                              (n \in BitsOf(filter_actions[i].filters[1].priv[p]))
                                  # filter_actions[i].filters[1].priv[p].not
               /\ tcb.busy =>
                      (tcb.log[i].applied <=>
                          /\ (tcb.scno \in BitsOf(filter_actions[i].filters[1].priv[tcb.personality]))
                                 # filter_actions[i].filters[1].priv[tcb.personality].not
                          /\ tcb.path_match)

\* C14: with path tracing, after filtering_parsing_finish there is a trace
\* action (of trace=all if none was declared), TRACE is not in
\* default_flags and the trace action is applied iff its syscall filter and
\* the path filter both match; without path tracing finalisation adds no
\* action and no filter.
C14_PathInjection ==
    /\ []PathTracingFinished
    /\ [][(FinishStep /\ ~tracing_paths) =>
              /\ Len(filter_actions') = Len(filter_actions)
              /\ CountFilters(filter_actions') = CountFilters(filter_actions)
              /\ \A i \in 1..Len(filter_actions) :
                     \E j \in 1..Len(filter_actions') :
                         filter_actions'[j] = filter_actions[i]]_vars

\* Finalisation added the trace action, after two other actions, and an
\* event in the path set triggered it.
C14_Witness ==
    /\ phase = "tracing" /\ tracing_paths
    /\ faa.name = "trace" /\ ~faa.existed /\ faa.nbefore = 2
    /\ tcb.busy /\ tcb.path_match
    /\ \E i \in ActionsOfType("trace") : tcb.log[i].applied

\* The nfilters of the actions.
NFilters == {Len(filter_actions[i].filters) : i \in 1..Len(filter_actions)}

\* C17: after filtering_parsing_finish the scratch vector is as long as the
\* largest nfilters of the actions, the filter added by path injection
\* counted, so the variables of every action filter_syscall visits fit in
\* it; with no action there is no vector and filter_syscall visits nothing.
C17_ScratchVectorFits ==
    phase = "tracing" =>
        IF filter_actions = <<>>
        THEN /\ variables_buf.null
             /\ tcb.busy => tcb.log = <<>>
        ELSE /\ ~variables_buf.null
             /\ variables_buf.len \in NFilters
             /\ \A n \in NFilters : n <= variables_buf.len
             /\ tcb.busy =>
                    \A i \in 1..Len(tcb.log) :
                        tcb.log[i].ran =>
                            /\ Len(tcb.log[i].variables) = Len(filter_actions[i].filters)
                            /\ Len(tcb.log[i].variables) <= variables_buf.len

\* An event ran the two filters of the trace action and the one filter of
\* another action against a vector of two.
C17_Witness ==
    /\ phase = "tracing" /\ tcb.busy
    /\ variables_buf.len = 2
    /\ NFilters = {1, 2}
    /\ \E i, j \in 1..Len(tcb.log) :
           /\ tcb.log[i].ran /\ Len(tcb.log[i].variables) = 2
           /\ tcb.log[j].ran /\ Len(tcb.log[j].variables) = 1

\* An event arrived with no action registered.
C17_WitnessNoAction ==
    phase = "tracing" /\ tcb.busy /\ filter_actions = <<>> /\ variables_buf.null

(***************************************************************************)
(* Vocabulary of the claim about the class tokens.                         *)
(***************************************************************************)
\* The leading '!' that parse_syscall_filter takes off the specification.
BangsTaken == IF ps.qualify_mode THEN CountLeading(ps.str, "!") ELSE 0

\* The names of the table of classes, and the class bits of a name.
ClassNames == {syscall_class[i].name : i \in 1..Len(syscall_class)}

ClassBits(name) ==
    UNION {syscall_class[i].value : i \in {j \in 1..Len(syscall_class) :
                                              syscall_class[j].name = name}}

\* The named syscalls of personality p with all bits of the class.
ClassMembers(bits, p) ==
    {i \in 0..(nsyscall_vec[p] - 1) :
        sysent(p, i).named /\ \A b \in bits : b \in sysent(p, i).sys_flags}

\* The syscalls of personality p with that name.
NamedAs(name, p) ==
    {i \in 0..(nsyscall_vec[p] - 1) :
        sysent(p, i).named /\ sysent(p, i).sys_name = name}

\* C16: a specification of one class name is accepted and selects, in every
\* personality, the named syscalls whose flags have all bits of the class,
\* also when there is none; a name without '%' is a class in qualify mode
\* only and is otherwise looked up as the name of a syscall.  In qualify
\* mode !%file is inverted, holds the syscalls of TRACE_FILE, does not
\* contain the first of them and contains a syscall outside the class.
C16_ClassToken ==
    (ps.pc = "parsed" /\ StrFrom(ps.str, BangsTaken) \in ClassNames) =>
        /\ IF ps.qualify_mode \/ CharAt(StrFrom(ps.str, BangsTaken), 1) = "%"
           THEN /\ ~ps.die
                /\ \A p \in Personalities :
                       /\ BitsOf(ps.set[p])
                              = ClassMembers(ClassBits(StrFrom(ps.str, BangsTaken)), p)
                       /\ ps.set[p].not = (BangsTaken % 2 = 1)
           ELSE /\ ps.die <=> \A p \in Personalities : NamedAs(ps.str, p) = {}
                /\ ~ps.die =>
                       \A p \in Personalities :
                           /\ BitsOf(ps.set[p]) = NamedAs(ps.str, p)
                           /\ ~ps.set[p].not
        /\ (ps.qualify_mode /\ ps.str = <<"!", "%", "f", "i", "l", "e">>) =>
               /\ ps.set[0].not
               /\ BitsOf(ps.set[0]) = {2, 5}
               /\ ~is_number_in_set(2, ps.set[0])
               /\ is_number_in_set(6, ps.set[0])

\* Outside qualify mode "signal" selected the syscall of that name and not
\* the other syscall of the class.
C16_Witness ==
    /\ ps.pc = "parsed" /\ ~ps.qualify_mode /\ ~ps.die
    /\ ps.str = <<"s", "i", "g", "n", "a", "l">>
    /\ BitsOf(ps.set[0]) = {}
    /\ BitsOf(ps.set[1]) = {4}

\* In qualify mode "signal" selected the class, and %memory was accepted
\* with no syscall in it.
C16_WitnessClass ==
    /\ ps.pc = "parsed" /\ ps.qualify_mode /\ ~ps.die
    /\ \/ /\ ps.str = <<"s", "i", "g", "n", "a", "l">>
          /\ BitsOf(ps.set[0]) = {7}
          /\ BitsOf(ps.set[1]) = {4}
       \/ /\ ps.str = <<"%", "m", "e", "m", "o", "r", "y">>
          /\ BitsOf(ps.set[0]) = {}

(***************************************************************************)
(* Vocabulary of the claim about the signal qualifications.                *)
(***************************************************************************)
\* The numbers membership in signal_set is tested for.
SignalProbes == 0..(NSIG + BITS_PER_SLOT)

\* This step is a call of qualify_signals.
QualifySignalsStep == signal_set' # signal_set \/ qs' # qs

\* C18: after any sequence of signal qualifications (the last one not
\* fatal) the members of signal_set are those of the last list parsed alone
\* into an empty set, so all followed by none selects no signal; a signal
\* qualification registers no action and changes neither default_flags nor
\* the actions.
C18_LastSignalListWins ==
    /\ [](qs.called /\ ~qs.die =>
            /\ ~parse_set(qs.main_part, empty_number_set, "sigstr_to_uint", TRUE).die
            /\ \A n \in SignalProbes :
                   is_number_in_set(n, signal_set)
                       = is_number_in_set(n, parse_set(qs.main_part, empty_number_set,
                                                       "sigstr_to_uint", TRUE).set)
            /\ qs.main_part = <<"n", "o", "n", "e">> =>
                   \A n \in SignalProbes : ~is_number_in_set(n, signal_set))
    /\ [][QualifySignalsStep =>
              /\ filter_actions' = filter_actions
              /\ default_flags' = default_flags]_vars

\* none was parsed after a list that grew the set to two slots and after
\* an action was registered: the slots are still there, and empty.
C18_Witness ==
    /\ qs.called /\ ~qs.die
    /\ qs.main_part = <<"n", "o", "n", "e">>
    /\ signal_set.nslots = 2
    /\ ~signal_set.not
    /\ filter_actions # <<>>

\* INT was parsed after an inverted list.
C18_WitnessAfterInverted ==
    /\ qs.called /\ ~qs.die
    /\ qs.main_part = <<"I", "N", "T">>
    /\ signal_set.nslots = 2
    /\ is_number_in_set(2, signal_set)
    /\ ~is_number_in_set(40, signal_set)


====
